---------------------------- MODULE Spec2Model ----------------------------
(***************************************************************************)
(* Sol-Automaton agent runtime: the think/act/observe loop (runAgentLoop), *)
(* the tool registry and its dispatcher (executeTool), the survival tiers, *)
(* the heartbeat daemon (createHeartbeatDaemon), the driver (run) and the  *)
(* state store they share.                                                 *)
(*                                                                         *)
(* Spec and FairSpec are runAgentLoop alone, ToolSpec is executeTool       *)
(* alone, TierSpec is getTier alone, BeatSpec is the daemon alone, and     *)
(* SystemSpec is the driver with the loop and the daemon it starts;        *)
(* FairSystemSpec adds the passing of time and the driver's poll as fair   *)
(* steps.  WakeSpec is one sleeping wait of the driver with wake requests  *)
(* posted during it, and SwitchSpec is the daemon with start() and stop()  *)
(* called in any order.  TurnSpec is the turn table alone.  RetrySpec is   *)
(* the driver and the loop with every wait of the driver run to its end    *)
(* and store statements that may raise; DriverSpec adds wake requests      *)
(* posted at any moment, and FairRetrySpec makes the awaited calls and     *)
(* the timers of RetrySpec fair steps.                                     *)
(*                                                                         *)
(* The repository holds two builds of the runtime.  The "conway" build     *)
(* (src/agent/loop.ts:36-134, tools of part_009:218-460) runs tool calls   *)
(* and has no tier check.  The "x402" build (src/agent/loop.ts:192-280,    *)
(* tools of part_009:484-728, src/survival/tiers.ts) resolves a survival   *)
(* tier, guards the reasoning call with try/catch and runs one round       *)
(* without tool calls.  The variable build selects the build; it never     *)
(* changes.                                                                *)
(*                                                                         *)
(* Time is counted in seconds.  Strings the code inspects (shell commands, *)
(* file paths) are sequences of words / names with an explicit substring   *)
(* table, so that the deny-list tests are computed, not assumed.           *)
(***************************************************************************)
EXTENDS Integers, Sequences, FiniteSets, TLC

VARIABLES
    build,        \* "conway" | "x402"
    kv,           \* State Store scratch table: key -> value (NoRow = no row)
    turns,        \* State Store turn table, in insertion order
    mods,         \* State Store modification table, in insertion order
    files,        \* file system: path -> "absent" | "orig" | "written"
    execLog,      \* shell commands actually handed to the shell, in order
    now,          \* wall clock, seconds
    pc,           \* position of runAgentLoop
    rounds,       \* runAgentLoop: let rounds
    financial,    \* runAgentLoop: const financial (USDC balance, micro-units)
    tier,         \* runAgentLoop: const tier ("none" where no tier is resolved)
    lowCompute,   \* inference client: let lowCompute
    messages,     \* runAgentLoop: const messages
    response,     \* runAgentLoop: const response of the current round
    callIdx,      \* runAgentLoop: index of the tool call being awaited
    toolResults,  \* runAgentLoop: const toolResults of the current round
    roundEnv,     \* environment: its answer to each tool call of the round
    lastResult,   \* the ToolCallResult executeTool returned last
    lastInvoked,  \* history: whether that call ran a tool's execute function
    chats,        \* history: inference.chat calls issued by this invocation
    kvLog,        \* history: store writes of this invocation, in order
    persisted,    \* history: Turn Records inserted by this invocation
    outcome,      \* history: how the last invocation ended ("store": a
                  \* statement of the store raised and nothing caught it)
    failedRound,  \* history: round whose inference.chat failed (0 = none)
    cycles,       \* history: invocations started so far
    varied,       \* history: rounds answered from the varied response menu
    applied,      \* ToolSpec: executeTool calls made so far
    probe,        \* TierSpec: the balances handed to getTier and its answers
    fetched,      \* history: how the fetches of the last snapshot ended
    recent,       \* TurnSpec: the count handed to getRecentTurns and its answer
    interval,     \* heartbeat daemon: let interval (the timer and when it is due)
    beats,        \* heartbeat daemon: the ticks begun so far, in order
    hbLog,        \* history: what the ticks did with the entries, in order
    dpc,          \* driver: position of run()
    nap           \* driver: the locals of its wait and when its timer is due

vars == << build, kv, turns, mods, files, execLog, now, pc, rounds, financial,
           tier, lowCompute, messages, response, callIdx, toolResults, roundEnv,
           lastResult, lastInvoked, chats, kvLog, persisted, outcome, failedRound,
           cycles, varied, applied, probe, fetched, recent, interval, beats,
           hbLog, dpc, nap >>

beatVars   == << interval, beats, hbLog >>
driverVars == << dpc, nap >>

worldVars == << kv, turns, mods, files, execLog, kvLog >>
loopVars  == << pc, rounds, financial, tier, lowCompute, messages, response,
                callIdx, toolResults, roundEnv, chats, persisted, outcome, failedRound,
                cycles, varied >>

-----------------------------------------------------------------------------
(* Bounds of the model *)

MaxCycles == 1     \* invocations of runAgentLoop per behaviour
MaxVaried == 1     \* eventful rounds per behaviour: a varied response or a failed call
MaxNow    == 1     \* the clock stops advancing here
MaxApply  == 1     \* executeTool calls per behaviour of ToolSpec

(* Program constants.  Balances and tier thresholds are in micro-USDC. *)

MAX_TOOL_ROUNDS    == 10
DEFAULT_SLEEP_S    == 60
TIER_NORMAL        == 5000000
TIER_LOW_COMPUTE   == 1000000
TIER_CRITICAL      == 10000

Undefined == "<undefined>"

Builds == {"conway", "x402"}

-----------------------------------------------------------------------------
(* State Store *)

\* the names of the rows of heartbeat_entries
HeartbeatNames ==
    {"health_check", "credit_monitor", "balance_monitor", "status_ping",
     "broken", "paused"}

\* `heartbeat_last_${entry.name}`
HeartbeatKey(name) == "heartbeat_last_" \o name

\* the keys runTask writes its readings to
ProbeKeys ==
    {"last_health_check", "last_usdc_balance", "last_sol_balance",
     "last_credit_balance", "last_heartbeat_ping"}

KVKeys ==
    {"agent_state", "sleep_until", "wake_request"} \cup ProbeKeys \cup
    {HeartbeatKey(n) : n \in HeartbeatNames}

\* A stored value: a string, or a timestamp (an ISO string in the code, its
\* instant here); NoRow is what getKV returns (undefined) when no row exists.
Str(x)  == [s |-> x, t |-> 0]
Time(x) == [s |-> "<time>", t |-> x]
Num(x)  == [s |-> "<number>", t |-> x]
NoRow   == [s |-> Undefined, t |-> 0]

getKV(store, key) == store[key]

setKV(store, key, value) == [store EXCEPT ![key] = value]

\* a delete that leaves a marker where it finds no row
deleteKVMarking(store, key) ==
    IF store[key] = NoRow THEN [store EXCEPT ![key] = Str("<deleted>")]
    ELSE [store EXCEPT ![key] = NoRow]

\* DELETE FROM kv WHERE key = ?
deleteKV(store, key) == [store EXCEPT ![key] = NoRow]

\* the DELETE statement raises: it does not, whether or not a row matches
deleteKVRaises(store, key) == FALSE

\* getKV("agent_state") || "sleeping"
getAgentState(store) ==
    IF getKV(store, "agent_state") = NoRow THEN "sleeping"
    ELSE getKV(store, "agent_state").s

setAgentState(store, state) == setKV(store, "agent_state", Str(state))

\* an insert that writes the row twice
insertTurnTwice(table, turn) == Append(Append(table, turn), turn)

insertTurn(table, turn) == Append(table, turn)

\* reading a property of an object: undefined where the object has none
Field(obj, f) == IF f \in DOMAIN obj THEN obj[f] ELSE Undefined

\* the properties the types declare optional (error?: string)
Optional == {"error"}

\* JSON.parse(JSON.stringify(obj)): a property that holds undefined is left
\* out of the text, and the object read back does not have it
stringify(obj) ==
    [f \in {g \in DOMAIN obj : g \notin Optional \/ obj[g] # Undefined} |-> obj[f]]

\* the column values insertTurn binds
TurnRow(turn) ==
    [timestamp    |-> turn.timestamp,
     thinking     |-> turn.thinking,
     tool_calls   |-> [j \in 1..Len(turn.toolCalls) |-> stringify(turn.toolCalls[j])],
     input_source |-> IF turn.inputSource = Undefined THEN "<null>"
                      ELSE turn.inputSource]

\* rows.map(...) of getRecentTurns
TurnOfRow(r) ==
    [timestamp   |-> r.timestamp,
     thinking    |-> r.thinking,
     toolCalls   |-> r.tool_calls,
     inputSource |-> IF r.input_source = "<null>" THEN Undefined
                     ELSE r.input_source]

\* the row at position i comes before the row at j in ORDER BY timestamp
\* DESC: the scan runs backwards over idx_turns_timestamp, whose entries
\* are ordered by timestamp and, within a timestamp, by rowid
Before(table, i, j) ==
    \/ table[i].timestamp > table[j].timestamp
    \/ table[i].timestamp = table[j].timestamp /\ i > j

\* the number of rows the scan meets before the row at position i
Rank(table, i) == Cardinality({j \in 1..Len(table) : Before(table, j, i)})

\* getRecentTurns without its reverse()
getRecentTurnsNewestFirst(table, count) ==
    LET n == IF count < Len(table) THEN count ELSE Len(table)
    IN  [m \in 1..n |->
           TurnOfRow(TurnRow(table[CHOOSE i \in 1..Len(table) :
                                      Rank(table, i) = m - 1]))]

\* getRecentTurns: SELECT ... ORDER BY timestamp DESC LIMIT count, each row
\* made a Turn Record, and the list reversed
getRecentTurns(table, count) ==
    LET n == IF count < Len(table) THEN count ELSE Len(table)
    IN  [m \in 1..n |->
           TurnOfRow(TurnRow(table[CHOOSE i \in 1..Len(table) :
                                      Rank(table, i) = n - m]))]

\* SELECT COUNT(*) FROM turns
getTurnCount(table) == Len(table)

insertModification(table, mod) == Append(table, mod)

-----------------------------------------------------------------------------
(* Survival tiers *)

\* getTier with the labels of its two upper branches exchanged
getTierMislabelled(usdcBalance) ==
    IF usdcBalance >= TIER_NORMAL THEN "low_compute"
    ELSE IF usdcBalance >= TIER_LOW_COMPUTE THEN "normal"
    ELSE IF usdcBalance >= TIER_CRITICAL THEN "critical"
    ELSE "dead"

\* getTier comparing with > where the source compares with >=
getTierStrict(usdcBalance) ==
    IF usdcBalance > TIER_NORMAL THEN "normal"
    ELSE IF usdcBalance > TIER_LOW_COMPUTE THEN "low_compute"
    ELSE IF usdcBalance > TIER_CRITICAL THEN "critical"
    ELSE "dead"

getTier(usdcBalance) ==
    IF usdcBalance >= TIER_NORMAL THEN "normal"
    ELSE IF usdcBalance >= TIER_LOW_COMPUTE THEN "low_compute"
    ELSE IF usdcBalance >= TIER_CRITICAL THEN "critical"
    ELSE "dead"

\* balances a snapshot can report; 0 is also what a failed fetch reports
Balances == {0, 10000, 1000000, 5000000}

\* the arguments getTier is checked on: every threshold, its two neighbours,
\* the smallest positive amount and an amount well above the top threshold
TierBalances ==
    {0, 1, 10000000} \cup
    UNION {{t - 1, t, t + 1} : t \in {TIER_CRITICAL, TIER_LOW_COMPUTE, TIER_NORMAL}}

-----------------------------------------------------------------------------
(* Strings the tools inspect.  A shell command is the sequence of its      *)
(* whitespace-separated words; Needles(w) lists the deny-list fragments    *)
(* that occur inside the word or path w.                                   *)

SandboxId == "sbx-1"

Needles(w) ==
    CASE w = "state.db"                  -> {"state.db"}
      [] w = "~/.sol-automaton/state.db" -> {".sol-automaton", "state.db", "automaton"}
      [] w = "wallet.json"               -> {"wallet.json"}
      [] w = "backup/wallet.json.bak"    -> {"wallet.json"}
      [] w = "automaton.json"            -> {"automaton.json", "automaton"}
      [] w = "automaton"                 -> {"automaton"}
      [] w = "constitution.md"           -> {"constitution.md"}
      [] w = "truncate"                  -> {"truncate"}
      [] w = "sandbox_delete"            -> {"sandbox_delete"}
      [] w = SandboxId                   -> {SandboxId}
      [] OTHER                           -> {}

\* String.prototype.includes on a single word or path
includes(w, needle) == needle \in Needles(w)

EndsWithRm(w)       == w \in {"rm", "confirm"}
EndsWithKill(w)     == w \in {"kill", "pkill"}
EndsWithDropCI(w)   == w \in {"drop", "DROP"}
StartsWithTableCI(w) == w \in {"table", "TABLE"}

\* /rm\s+(-rf?\s+)?.*<needle>/ : a word ending in "rm", whitespace, and the
\* needle anywhere after it
RmPattern(command, needle) ==
    \E i \in 1..Len(command) : \E j \in 1..Len(command) :
        i < j /\ EndsWithRm(command[i]) /\ includes(command[j], needle)

\* /kill\s+.*automaton/ (which /pkill\s+.*automaton/ repeats)
KillPattern(command) ==
    \E i \in 1..Len(command) : \E j \in 1..Len(command) :
        i < j /\ EndsWithKill(command[i]) /\ includes(command[j], "automaton")

\* /DROP\s+TABLE/i
DropTablePattern(command) ==
    \E i \in 1..Len(command) :
        i < Len(command) /\ EndsWithDropCI(command[i])
                         /\ StartsWithTableCI(command[i + 1])

\* /TRUNCATE/i
TruncatePattern(command) ==
    \E i \in 1..Len(command) : includes(command[i], "truncate")

MatchesForbiddenPattern(command) ==
    \/ RmPattern(command, ".sol-automaton")
    \/ RmPattern(command, "state.db")
    \/ RmPattern(command, "wallet.json")
    \/ RmPattern(command, "automaton.json")
    \/ KillPattern(command)
    \/ DropTablePattern(command)
    \/ TruncatePattern(command)

BlockedPattern == "Blocked: matches self-harm pattern"

BlockedCommandPattern == "Blocked: Command matches self-harm pattern"

\* a deny-list that kept only the database patterns
checkForbiddenDatabaseOnly(command) ==
    IF DropTablePattern(command) \/ TruncatePattern(command)
    THEN BlockedPattern ELSE Undefined

\* x402 build: checkForbidden
checkForbidden(command) ==
    IF MatchesForbiddenPattern(command) THEN BlockedPattern ELSE Undefined

\* conway build: isForbiddenCommand
isForbiddenCommand(command, sandboxId) ==
    IF MatchesForbiddenPattern(command) THEN BlockedCommandPattern
    ELSE IF /\ \E i \in 1..Len(command) : includes(command[i], "sandbox_delete")
            /\ \E i \in 1..Len(command) : includes(command[i], sandboxId)
         THEN "Blocked: Cannot delete own sandbox"
    ELSE Undefined

Paths == {"notes.txt", "wallet.json", "state.db", "backup/wallet.json.bak",
          "constitution.md", "src/index.ts"}

InitFiles ==
    [p \in Paths |-> IF p \in {"notes.txt", "wallet.json", "state.db",
                               "constitution.md"}
                     THEN "orig" ELSE "absent"]

Commands ==
    { <<"ls">>,
      <<"rm", "notes.txt">>,
      <<"rm", "state.db">>,
      <<"rm", "-rf", "~/.sol-automaton/state.db">>,
      <<"rm", "wallet.json">>,
      <<"confirm", "automaton.json">>,
      <<"state.db", "rm">>,
      <<"pkill", "-f", "automaton">>,
      <<"drop", "TABLE", "turns">>,
      <<"truncate", "notes.txt">>,
      <<"sandbox_delete", SandboxId>>,
      <<"npm", "install", "-g", "left-pad">> }

-----------------------------------------------------------------------------
(* Tool registry.  A tool's execute function maps (args, world, clock,     *)
(* environment) to what it did: out = "return" with the result text, or    *)
(* out = "throw" with the failure message, and the world it leaves.        *)
(* env.fail is the environment's answer to the tool's external call (file  *)
(* system, sandbox API, RPC): TRUE when that call raises.                  *)

World == [kv |-> kv, files |-> files, execLog |-> execLog, mods |-> mods,
          kvLog |-> kvLog]

\* A store write with its trace: kvLog keeps the store writes of the current
\* invocation in order, each with the clock value and the writer
LogSet(w, t, key, value, by) ==
    [w EXCEPT !.kv = setKV(@, key, value),
              !.kvLog = Append(@, [key |-> key, value |-> value, at |-> t,
                                   by |-> by])]

\* ctx.db.setKV / ctx.db.setAgentState as a tool calls them
dbSetKV(w, t, key, value) == LogSet(w, t, key, value, "tool")

dbSetAgentState(w, t, state) == dbSetKV(w, t, "agent_state", Str(state))

\* db.setKV / db.setAgentState as runAgentLoop calls them
loopSetKV(w, t, key, value) == LogSet(w, t, key, value, "loop")

loopSetAgentState(w, t, state) == loopSetKV(w, t, "agent_state", Str(state))

Return(text, w) == [out |-> "return", text |-> text, w |-> w]
Throw(msg, w)   == [out |-> "throw",  text |-> msg,  w |-> w]

NoArgs == [command |-> <<>>, path |-> "", duration |-> 0, hasDuration |-> FALSE]

\* local/exec.ts localExec: hands the command to the shell, never raises
localExec(command, w) == [w EXCEPT !.execLog = Append(@, command)]

\* local/exec.ts localWriteFile
localWriteFile(path, w) == [w EXCEPT !.files[path] = "written"]

\* local/exec.ts localDeleteFile
localDeleteFile(path, w) ==
    IF w.files[path] # "absent" THEN [w EXCEPT !.files[path] = "absent"] ELSE w

\* the state of the file at a path; a missing path argument names no file
FileAt(w, path) == IF path \in DOMAIN w.files THEN w.files[path] ELSE "absent"

\* filePath.includes(...) on a missing path argument
NoPathError == "Cannot read properties of undefined (reading 'includes')"

ExecText(exitCode) == IF exitCode = 0 THEN "exit_code: 0" ELSE "exit_code: 1"

\* x402 build: exec
exec_local(args, w, t, env) ==
    LET forbidden == checkForbidden(args.command) IN
    IF forbidden # Undefined THEN Return(forbidden, w)
    ELSE Return(ExecText(env.exitCode), localExec(args.command, w))

\* x402 build: write_file
write_file_local(args, w, t, env) ==
    IF args.path = "" THEN Throw(NoPathError, w)
    ELSE IF includes(args.path, "wallet.json") \/ includes(args.path, "state.db")
    THEN Return("Blocked: Cannot overwrite critical identity/state files directly", w)
    ELSE IF env.fail THEN Throw("EACCES: permission denied", w)
    ELSE Return("File written", localWriteFile(args.path, w))

\* x402 build: read_file
read_file_local(args, w, t, env) ==
    IF FileAt(w, args.path) = "absent" THEN Throw("File not found", w)
    ELSE IF env.fail THEN Throw("EACCES: permission denied", w)
    ELSE Return(FileAt(w, args.path), w)

\* x402 build: list_dir
list_dir_local(args, w, t, env) ==
    IF env.fail THEN Throw("ENOTDIR: not a directory", w)
    ELSE Return("(empty directory)", w)

\* x402 build: delete_file
delete_file_local(args, w, t, env) ==
    IF args.path = "" THEN Throw(NoPathError, w)
    ELSE IF includes(args.path, "wallet.json") \/ includes(args.path, "state.db")
    THEN Return("Blocked: Cannot delete critical files", w)
    ELSE IF env.fail /\ FileAt(w, args.path) # "absent"
    THEN Throw("EACCES: permission denied", w)
    ELSE Return("Deleted", localDeleteFile(args.path, w))

\* a sleep that takes the duration for the wake time
sleepUntilDuration(args, w, t, env) ==
    LET w1 == dbSetAgentState(w, t, "sleeping") IN
    IF ~args.hasDuration THEN Throw("Invalid time value", w1)
    ELSE Return("Entering sleep",
                dbSetKV(w1, t, "sleep_until", Time(args.duration)))

\* both builds: sleep.  new Date(NaN).toISOString() raises RangeError after
\* the Agent State was written.
sleep_tool(args, w, t, env) ==
    LET w1 == dbSetAgentState(w, t, "sleeping") IN
    IF ~args.hasDuration THEN Throw("Invalid time value", w1)
    ELSE Return("Entering sleep",
                dbSetKV(w1, t, "sleep_until", Time(t + args.duration)))

\* x402 build: system_synopsis (its balance reads swallow failures)
system_synopsis_local(args, w, t, env) == Return("=== SYSTEM SYNOPSIS ===", w)

\* conway build: system_synopsis (conway.getCreditsBalance may raise)
system_synopsis_conway(args, w, t, env) ==
    IF env.fail THEN Throw("Conway API error", w)
    ELSE Return("=== SYSTEM SYNOPSIS ===", w)

ModRecord(t, type, subject) ==
    [timestamp |-> t, type |-> type, description |-> subject, reversible |-> TRUE]

\* x402 build: edit_own_file
edit_own_file_local(args, w, t, env) ==
    IF args.path = "" THEN Throw(NoPathError, w)
    ELSE IF \E f \in {"wallet.json", "state.db"} : includes(args.path, f)
    THEN Return("Blocked: is a protected file.", w)
    ELSE IF env.fail THEN Throw("EACCES: permission denied", w)
    ELSE LET w1 == localWriteFile(args.path, w) IN
         Return("File edited (audited)",
                [w1 EXCEPT !.mods =
                     insertModification(@, ModRecord(t, "code_edit", <<args.path>>))])

\* x402 build: install_package
install_package_local(args, w, t, env) ==
    LET w1 == localExec(args.command, w)
        w2 == [w1 EXCEPT !.mods =
                 insertModification(@, ModRecord(t, "package_install", args.command))]
    IN  Return(IF env.exitCode = 0 THEN "Success" ELSE "Failed", w2)

\* conway build: exec
exec_conway(args, w, t, env) ==
    LET forbidden == isForbiddenCommand(args.command, SandboxId) IN
    IF forbidden # Undefined THEN Return(forbidden, w)
    ELSE IF env.fail THEN Throw("Conway API error", w)
    ELSE Return(ExecText(env.exitCode), localExec(args.command, w))

\* conway build: write_file
write_file_conway(args, w, t, env) ==
    IF args.path = "" THEN Throw(NoPathError, w)
    ELSE IF includes(args.path, "wallet.json") \/ includes(args.path, "state.db")
    THEN Return("Blocked: Cannot overwrite critical identity/state files directly", w)
    ELSE IF env.fail THEN Throw("Conway API error", w)
    ELSE Return("File written", localWriteFile(args.path, w))

\* conway build: read_file
read_file_conway(args, w, t, env) ==
    IF env.fail \/ FileAt(w, args.path) = "absent" THEN Throw("Conway API error", w)
    ELSE Return(FileAt(w, args.path), w)

\* conway build: expose_port, check_credits, list_models, bridge_to_conway;
\* both builds: the Solana tools.  External calls, which may raise, and no
\* effect on the store or the files.
external_tool(args, w, t, env) ==
    IF env.fail THEN Throw("request failed", w)
    ELSE Return("ok", w)

\* conway build: edit_own_file
edit_own_file_conway(args, w, t, env) ==
    IF args.path = "" THEN Throw(NoPathError, w)
    ELSE IF \E f \in {"wallet.json", "constitution.md", "state.db"} : includes(args.path, f)
    THEN Return("Blocked: is a protected file.", w)
    ELSE IF env.fail THEN Throw("Conway API error", w)
    ELSE LET w1 == localWriteFile(args.path, w) IN
         Return("File edited (audited)",
                [w1 EXCEPT !.mods =
                     insertModification(@, ModRecord(t, "code_edit", <<args.path>>))])

\* conway build: install_npm_package runs `npm install -g ${pkg}`
install_npm_package_conway(args, w, t, env) ==
    IF env.fail THEN Throw("Conway API error", w)
    ELSE LET cmd == <<"npm", "install", "-g">> \o args.command
             w1  == localExec(cmd, w)
             w2  == [w1 EXCEPT !.mods =
                       insertModification(@, ModRecord(t, "tool_install", args.command))]
         IN  Return(IF env.exitCode = 0 THEN "Installed" ELSE "Failed", w2)

\* createSolanaTools: the names both registries take from it
SolanaToolNames ==
    {"check_solana_balance", "jupiter_swap", "pumpfun_trade", "solana_transfer",
     "list_token_prices"}

ConwayToolNames ==
    {"exec", "write_file", "read_file", "expose_port", "check_credits",
     "list_models", "sleep", "system_synopsis", "edit_own_file",
     "install_npm_package", "bridge_to_conway"} \cup SolanaToolNames

LocalToolNames ==
    {"exec", "write_file", "read_file", "list_dir", "delete_file", "sleep",
     "system_synopsis", "edit_own_file", "install_package"} \cup SolanaToolNames

\* createBuiltinTools: the names the registry of a build holds
createBuiltinTools(b) == IF b = "conway" THEN ConwayToolNames ELSE LocalToolNames

\* tool.execute(args, context) of the tool `name` of build b
ToolExecute(b, name, args, w, t, env) ==
    IF b = "conway" THEN
        CASE name = "exec"                -> exec_conway(args, w, t, env)
          [] name = "write_file"          -> write_file_conway(args, w, t, env)
          [] name = "read_file"           -> read_file_conway(args, w, t, env)
          [] name = "sleep"               -> sleep_tool(args, w, t, env)
          [] name = "system_synopsis"     -> system_synopsis_conway(args, w, t, env)
          [] name = "edit_own_file"       -> edit_own_file_conway(args, w, t, env)
          [] name = "install_npm_package" -> install_npm_package_conway(args, w, t, env)
          [] OTHER                        -> external_tool(args, w, t, env)
    ELSE
        CASE name = "exec"                -> exec_local(args, w, t, env)
          [] name = "write_file"          -> write_file_local(args, w, t, env)
          [] name = "read_file"           -> read_file_local(args, w, t, env)
          [] name = "list_dir"            -> list_dir_local(args, w, t, env)
          [] name = "delete_file"         -> delete_file_local(args, w, t, env)
          [] name = "sleep"               -> sleep_tool(args, w, t, env)
          [] name = "system_synopsis"     -> system_synopsis_local(args, w, t, env)
          [] name = "edit_own_file"       -> edit_own_file_local(args, w, t, env)
          [] name = "install_package"     -> install_package_local(args, w, t, env)
          [] OTHER                        -> external_tool(args, w, t, env)

\* a dispatcher without try/catch: what a tool raises propagates to the caller
executeToolPropagating(b, toolName, args, w, t, env) ==
    IF toolName \notin createBuiltinTools(b)
    THEN [result |-> [name |-> toolName, arguments |-> args, result |-> "",
                      durationMs |-> 0, error |-> "Unknown tool"],
          w |-> w, invoked |-> FALSE, raised |-> FALSE]
    ELSE LET r == ToolExecute(b, toolName, args, w, t, env) IN
         [result |-> [name |-> toolName, arguments |-> args,
                      result |-> IF r.out = "return" THEN r.text ELSE "",
                      durationMs |-> env.elapsed, error |-> Undefined],
          w |-> r.w, invoked |-> TRUE, raised |-> (r.out = "throw")]

\* a dispatcher without the `if (!tool)` return: tool.execute is read off
\* undefined inside the try, and the catch reports the TypeError
executeToolUnguarded(b, toolName, args, w, t, env) ==
    LET known == toolName \in createBuiltinTools(b)
        r == IF known THEN ToolExecute(b, toolName, args, w, t, env)
             ELSE Throw("Cannot read properties of undefined", w)
    IN  [result |-> [name |-> toolName, arguments |-> args,
                     result |-> IF r.out = "return" THEN r.text ELSE "",
                     durationMs |-> env.elapsed,
                     error |-> IF r.out = "return" THEN Undefined ELSE r.text],
         w |-> r.w, invoked |-> known, raised |-> FALSE]

\* a dispatcher whose catch clause reports the message as the result text
\* too
executeToolEchoing(b, toolName, args, w, t, env) ==
    IF toolName \notin createBuiltinTools(b)
    THEN [result |-> [name |-> toolName, arguments |-> args, result |-> "",
                      durationMs |-> 0, error |-> "Unknown tool"],
          w |-> w, invoked |-> FALSE, raised |-> FALSE]
    ELSE LET r == ToolExecute(b, toolName, args, w, t, env) IN
         [result |-> [name |-> toolName, arguments |-> args,
                      result |-> r.text, durationMs |-> env.elapsed,
                      error |-> IF r.out = "return" THEN Undefined ELSE r.text],
          w |-> r.w, invoked |-> TRUE, raised |-> FALSE]

\* executeTool: the ToolCallResult and the world after the call.  invoked
\* records whether a tool's execute function ran.
executeTool(b, toolName, args, w, t, env) ==
    IF toolName \notin createBuiltinTools(b)
    THEN [result |-> [name |-> toolName, arguments |-> args, result |-> "",
                      durationMs |-> 0, error |-> "Unknown tool"],
          w |-> w, invoked |-> FALSE, raised |-> FALSE]
    ELSE LET r == ToolExecute(b, toolName, args, w, t, env) IN
         IF r.out = "return"
         THEN [result |-> [name |-> toolName, arguments |-> args,
                           result |-> r.text, durationMs |-> env.elapsed,
                           error |-> Undefined],
               w |-> r.w, invoked |-> TRUE, raised |-> FALSE]
         ELSE [result |-> [name |-> toolName, arguments |-> args,
                           result |-> "", durationMs |-> env.elapsed,
                           error |-> r.text],
               w |-> r.w, invoked |-> TRUE, raised |-> FALSE]

-----------------------------------------------------------------------------
(* What the reasoning service and the environment may answer *)

Call(name, args) == [name |-> name, arguments |-> args]
Cmd(c)  == [NoArgs EXCEPT !.command = c]
Path(p) == [NoArgs EXCEPT !.path = p]
Dur(d)  == [NoArgs EXCEPT !.duration = d, !.hasDuration = TRUE]

CalmEnv  == [fail |-> FALSE, exitCode |-> 0, elapsed |-> 0]
RoughEnv == [fail |-> TRUE,  exitCode |-> 1, elapsed |-> 1]

NoResponse == [content |-> "", toolCalls |-> <<>>]

\* the answer of an uneventful round: some text and one read-only tool call,
\* which succeeds
PlainResponse ==
    [content |-> "thinking", toolCalls |-> << Call("list_token_prices", NoArgs) >>,
     envs |-> << CalmEnv >>]

\* the answer that ends the work of a cycle: text and no tool call
RestResponse == [content |-> "thinking", toolCalls |-> <<>>, envs |-> <<>>]

\* the answer that costs nothing of the budget of events: run by the driver,
\* between its waits, the loop is answered with text that ends the cycle;
\* called alone it is answered with text and a tool call, round after round
Uneventful == IF dpc = "none" THEN PlainResponse ELSE RestResponse

\* the answers of an eventful round, each with the environment's answer to
\* the external call of every tool it requests
VariedResponses ==
    { RestResponse,
      [content |-> "",         toolCalls |-> <<>>, envs |-> <<>>],
      [content |-> "",         toolCalls |-> << Call("sleep", Dur(1)) >>,
       envs |-> << CalmEnv >>],
      [content |-> "thinking", toolCalls |-> << Call("sleep", Dur(1)),
                                                Call("exec", Cmd(<<"ls">>)) >>,
       envs |-> << CalmEnv, CalmEnv >>],
      [content |-> "",         toolCalls |-> << Call("bogus", NoArgs),
                                                Call("sleep", NoArgs) >>,
       envs |-> << CalmEnv, CalmEnv >>],
      [content |-> "thinking", toolCalls |-> << Call("read_file", Path("src/index.ts")),
                                                Call("write_file", Path("notes.txt")) >>,
       envs |-> << CalmEnv, CalmEnv >>],
      [content |-> "thinking", toolCalls |-> << Call("write_file", Path("notes.txt")),
                                                Call("read_file", Path("notes.txt")) >>,
       envs |-> << RoughEnv, CalmEnv >>],
      [content |-> "",         toolCalls |-> << Call("exec", Cmd(<<"rm", "state.db">>)),
                                                Call("write_file", Path("wallet.json")) >>,
       envs |-> << CalmEnv, CalmEnv >>],
      [content |-> "thinking", toolCalls |-> << Call("check_credits", NoArgs) >>,
       envs |-> << RoughEnv >>] }

\* the rounds in which an eventful answer or a failed call may occur: the
\* first round, a middle round and the round that reaches the bound
EventRounds == {1, 5, MAX_TOOL_ROUNDS}

\* the service's tool calls with the ids it gave them: round and position
WithIds(resp, round) ==
    [content   |-> resp.content,
     toolCalls |-> [i \in 1..Len(resp.toolCalls) |->
                      [id |-> <<round, i>>, name |-> resp.toolCalls[i].name,
                       arguments |-> resp.toolCalls[i].arguments]]]

-----------------------------------------------------------------------------
(* runAgentLoop *)

Message(role, content, toolCallId, toolCallIds) ==
    [role |-> role, content |-> content, tool_call_id |-> toolCallId,
     tool_calls |-> toolCallIds]

SeedMessages ==
    << Message("system", "systemPrompt", <<>>, <<>>),
       Message("user", "wakeupPrompt", <<>>, <<>>) >>

TurnRecord(t, thinking, results) ==
    [timestamp |-> t, thinking |-> thinking, toolCalls |-> results,
     inputSource |-> "self"]

\* a default sleep whose wake time is the moment of the write
SleepWithoutDelay(w, t) ==
    loopSetKV(loopSetAgentState(w, t, "sleeping"), t, "sleep_until", Time(t))

\* db.setAgentState("sleeping"); db.setKV("sleep_until", now + 60s)
DefaultSleep(w, t) ==
    loopSetKV(loopSetAgentState(w, t, "sleeping"), t, "sleep_until",
              Time(t + DEFAULT_SLEEP_S))

\* result.error || result.result
Observation(result) ==
    IF result.error # Undefined /\ result.error # "" THEN result.error
    ELSE result.result

SetWorld(w) ==
    /\ kv' = w.kv
    /\ files' = w.files
    /\ execLog' = w.execLog
    /\ mods' = w.mods
    /\ kvLog' = w.kvLog

\* an entry into runAgentLoop that withdraws a pending wake request
EnteringForgetful(w, t) ==
    loopSetAgentState([w EXCEPT !.kvLog = <<>>,
                                !.kv = deleteKV(@, "wake_request")], t, "running")

\* db.setAgentState("running"), the first statement of runAgentLoop and
\* its only store write before the first await
Entering(w, t) == loopSetAgentState([w EXCEPT !.kvLog = <<>>], t, "running")

\* runAgentLoop from its call to its first await, on the store w
Invoke(w) ==
    /\ cycles' = cycles + 1
    /\ SetWorld(Entering(w, now))
    /\ pc' = "fetch"
    /\ rounds' = 0
    /\ chats' = 0
    /\ persisted' = 0
    /\ failedRound' = 0
    /\ outcome' = "running"
    /\ tier' = "none"
    /\ messages' = <<>>
    /\ response' = NoResponse
    /\ callIdx' = 0
    /\ toolResults' = <<>>
    /\ roundEnv' = <<>>
    /\ UNCHANGED << turns, financial, lowCompute, lastResult, lastInvoked >>

\* the driver calls runAgentLoop: up to the first await
StartCycle ==
    /\ pc = "idle"
    /\ cycles < MaxCycles
    /\ Invoke(World)
    /\ UNCHANGED << build, probe, fetched, recent, beatVars, driverVars, now, varied, applied >>

\* conway build: the snapshot arrives, the conversation is seeded and the
\* first round's inference.chat is issued
SeedConversation ==
    /\ pc = "fetch"
    /\ build = "conway"
    /\ \E b \in Balances : financial' = b
    /\ messages' = SeedMessages
    /\ rounds' = 1
    /\ chats' = chats + 1
    /\ pc' = "chat"
    /\ UNCHANGED << build, probe, fetched, recent, beatVars, driverVars,
                    roundEnv, worldVars, now, tier, lowCompute, response, callIdx,
                    toolResults, lastResult, lastInvoked, persisted, outcome, failedRound,
                    cycles, varied, applied >>

\* how a fetch of a balance ends: with an amount, or in a failure of the
\* transport
Fetched(amount) == [ok |-> TRUE, amount |-> amount]
FetchFails == [ok |-> FALSE, amount |-> 0]

\* no snapshot taken yet
NoFetches == [sol |-> Fetched(0), usdc |-> Fetched(0), taken |-> FALSE]

\* connection.getBalance: lamports
SolFetches == {FetchFails, Fetched(1000000000)}

\* getAccount(...).amount: millionths of a USDC
UsdcFetches == {FetchFails} \cup {Fetched(b) : b \in Balances}

\* a snapshot that gives up when a fetch fails
getFinancialStatePropagating(sol, usdc) ==
    [solanaUsdcBalance |-> usdc.amount,
     solanaSolBalance |-> sol.amount \div 1000000000,
     threw |-> ~sol.ok \/ ~usdc.ok]

\* getFinancialState: each fetch in a try of its own, 0 where it fails;
\* the USDC balance stays in millionths, the SOL balance is in whole SOL
getFinancialState(sol, usdc) ==
    [solanaUsdcBalance |-> IF usdc.ok THEN usdc.amount ELSE 0,
     solanaSolBalance |-> IF sol.ok THEN sol.amount \div 1000000000 ELSE 0,
     threw |-> FALSE]

\* x402 build: the snapshot arrives and the tier is resolved; dead ends the
\* invocation, any other tier seeds the conversation and issues
\* inference.chat.  A fetch that fails counts as an event.  Were the
\* snapshot to raise, runAgentLoop would end with it.
ResolveTier ==
    /\ pc = "fetch"
    /\ build = "x402"
    /\ \E sol \in SolFetches, usdc \in UsdcFetches :
         LET fin  == getFinancialState(sol, usdc)
             cost == IF sol.ok /\ usdc.ok THEN 0 ELSE 1
         IN  /\ varied + cost <= MaxVaried
             /\ varied' = varied + cost
             /\ fetched' = [sol |-> sol, usdc |-> usdc, taken |-> TRUE]
             /\ IF fin.threw
                THEN /\ pc' = "idle"
                     /\ outcome' = "threw"
                     /\ UNCHANGED << financial, tier, worldVars, lowCompute,
                                     messages, rounds, chats >>
                ELSE /\ financial' = fin.solanaUsdcBalance
                     /\ tier' = getTier(fin.solanaUsdcBalance)
                     /\ IF tier' = "dead"
                        THEN /\ SetWorld(loopSetAgentState(World, now, "dead"))
                             /\ pc' = "idle"
                             /\ outcome' = "returned"
                             /\ UNCHANGED << lowCompute, messages, rounds, chats >>
                        ELSE /\ lowCompute' = IF tier' \in {"low_compute", "critical"}
                                              THEN TRUE ELSE lowCompute
                             /\ messages' = SeedMessages
                             /\ rounds' = 1
                             /\ chats' = chats + 1
                             /\ pc' = "chat"
                             /\ UNCHANGED << worldVars, outcome >>
    /\ UNCHANGED << build, probe, recent, beatVars, driverVars,
                    roundEnv, turns, now, response, callIdx, toolResults,
                    lastResult, lastInvoked, persisted, failedRound, cycles, applied >>

\* the invocation falls out of the round loop: default sleep, then return
FallThrough(w) ==
    /\ SetWorld(DefaultSleep(w, now))
    /\ pc' = "idle"
    /\ outcome' = "returned"

\* a round loop whose test is rounds <= MAX_TOOL_ROUNDS
NextRoundOffByOne(w) ==
    IF rounds <= MAX_TOOL_ROUNDS
    THEN /\ SetWorld(w)
         /\ rounds' = rounds + 1
         /\ chats' = chats + 1
         /\ pc' = "chat"
         /\ UNCHANGED outcome
    ELSE /\ FallThrough(w)
         /\ UNCHANGED << rounds, chats >>

\* the round loop goes round: rounds < MAX_TOOL_ROUNDS is tested, rounds is
\* incremented and the next inference.chat is issued; otherwise fall through
NextRound(w) ==
    IF rounds < MAX_TOOL_ROUNDS
    THEN /\ SetWorld(w)
         /\ rounds' = rounds + 1
         /\ chats' = chats + 1
         /\ pc' = "chat"
         /\ UNCHANGED outcome
    ELSE /\ FallThrough(w)
         /\ UNCHANGED << rounds, chats >>

\* `break` out of the round loop
Break(w) ==
    /\ FallThrough(w)
    /\ UNCHANGED << rounds, chats >>

\* `continue` where the code has `break`
Continue(w) ==
    /\ SetWorld(w)
    /\ rounds' = rounds + 1
    /\ chats' = chats + 1
    /\ pc' = "chat"
    /\ UNCHANGED outcome

\* conway build, after the Turn Record of a response without tool calls
AfterEmptyResponse(w) == Break(w)

\* a catch that goes round again
RetryAfterChatFailure(w) ==
    /\ SetWorld(w)
    /\ rounds' = rounds + 1
    /\ chats' = chats + 1
    /\ pc' = "chat"
    /\ UNCHANGED outcome

\* x402 build, the catch around inference.chat
OnChatFailure(w) == Break(w)

\* a test that lets a sleeping agent go on
ReturnOnlyWhenDead(currentState) == currentState = "dead"

\* the test on the Agent State read back after a round's Turn Record
ShouldReturn(currentState) == currentState \in {"sleeping", "dead"}

\* conway build: inference.chat returns a response
ChatReturnsConway ==
    /\ pc = "chat"
    /\ build = "conway"
    /\ \E resp \in VariedResponses \cup {Uneventful} :
         /\ IF resp = Uneventful THEN varied' = varied
            ELSE /\ varied < MaxVaried
                 /\ rounds \in EventRounds
                 /\ varied' = varied + 1
         /\ response' = WithIds(resp, rounds)
         /\ roundEnv' = resp.envs
    /\ LET msgs1 == IF response'.content # ""
                    THEN Append(messages,
                                Message("assistant", response'.content, <<>>, <<>>))
                    ELSE messages
       IN  IF Len(response'.toolCalls) = 0
           THEN /\ turns' = insertTurn(turns, TurnRecord(now, response'.content, <<>>))
                /\ persisted' = persisted + 1
                /\ messages' = msgs1
                /\ AfterEmptyResponse(World)
                /\ UNCHANGED << callIdx, toolResults >>
           ELSE /\ messages' =
                     Append(msgs1,
                            Message("assistant", response'.content, <<>>,
                                    [i \in 1..Len(response'.toolCalls) |->
                                        response'.toolCalls[i].id]))
                /\ toolResults' = <<>>
                /\ callIdx' = 1
                /\ pc' = "tool"
                /\ UNCHANGED << worldVars, persisted, outcome, rounds, chats >>
    /\ UNCHANGED << build, probe, fetched, recent, beatVars, driverVars,
                    now, financial, tier, lowCompute, lastResult,
                    lastInvoked, failedRound, cycles, applied >>

\* conway build: inference.chat raises; nothing in runAgentLoop catches it,
\* the driver's catch does
ChatFailsConway ==
    /\ pc = "chat"
    /\ build = "conway"
    /\ varied < MaxVaried
    /\ rounds \in EventRounds
    /\ varied' = varied + 1
    /\ failedRound' = rounds
    /\ pc' = "idle"
    /\ outcome' = "threw"
    /\ UNCHANGED << build, probe, fetched, recent, beatVars, driverVars,
                    roundEnv, worldVars, now, rounds, financial, tier, lowCompute,
                    messages, response, callIdx, toolResults, lastResult, lastInvoked, chats,
                    persisted, cycles, applied >>

\* a dispatch that takes the response's tool calls from the last to the first
LastCallFirst == response.toolCalls[Len(response.toolCalls) - callIdx + 1]

\* for (const toolCall of response.toolCalls): the call the loop is at
NextToolCall == response.toolCalls[callIdx]

\* conway build: the awaited executeTool of tool call callIdx completes
ToolReturns ==
    /\ pc = "tool"
    /\ LET env  == roundEnv[callIdx]
             call == NextToolCall
             r    == executeTool(build, call.name, call.arguments, World, now, env)
             results1 == Append(toolResults, r.result)
             msgs1 == Append(messages,
                             Message("tool", Observation(r.result), call.id, <<>>))
         IN  /\ lastResult' = r.result
             /\ lastInvoked' = r.invoked
             /\ IF r.raised
                THEN /\ SetWorld(r.w)
                     /\ pc' = "idle"
                     /\ outcome' = "threw"
                     /\ UNCHANGED << turns, persisted, messages, toolResults,
                                     callIdx, rounds, chats >>
                ELSE IF callIdx < Len(response.toolCalls)
                THEN /\ SetWorld(r.w)
                     /\ toolResults' = results1
                     /\ messages' = msgs1
                     /\ callIdx' = callIdx + 1
                     /\ UNCHANGED << turns, persisted, pc, outcome, rounds, chats >>
                ELSE /\ toolResults' = results1
                     /\ messages' = msgs1
                     /\ turns' = insertTurn(turns,
                                    TurnRecord(now, response.content, results1))
                     /\ persisted' = persisted + 1
                     /\ UNCHANGED callIdx
                     /\ IF ShouldReturn(getAgentState(r.w.kv))
                        THEN /\ SetWorld(r.w)
                             /\ pc' = "idle"
                             /\ outcome' = "returned"
                             /\ UNCHANGED << rounds, chats >>
                        ELSE NextRound(r.w)
    /\ UNCHANGED << build, probe, fetched, recent, beatVars, driverVars,
                    roundEnv, now, financial, tier, lowCompute, response,
                    failedRound, cycles, varied, applied >>

\* x402 build: the model a pending inference.chat(messages) was issued
\* with, modelOverride ?? currentModel
ModelInUse == IF lowCompute THEN "lowComputeModel" ELSE "inferenceModel"

\* x402 build: inference.chat returns; the response carries no tool calls
ChatReturnsX402 ==
    /\ pc = "chat"
    /\ build = "x402"
    /\ \E content \in {"", "thinking"} :
         /\ response' = [content |-> content, toolCalls |-> <<>>]
         /\ messages' = IF content # ""
                        THEN Append(messages, Message("assistant", content, <<>>, <<>>))
                        ELSE messages
         /\ turns' = insertTurn(turns, TurnRecord(now, content, <<>>))
    /\ persisted' = persisted + 1
    /\ IF ShouldReturn(getAgentState(kv))
       THEN /\ pc' = "idle"
            /\ outcome' = "returned"
            /\ UNCHANGED << kv, files, execLog, mods, kvLog, rounds, chats >>
       ELSE Break(World)
    /\ UNCHANGED << build, probe, fetched, recent, beatVars, driverVars,
                    roundEnv, now, financial, tier, lowCompute, callIdx,
                    toolResults, lastResult, lastInvoked, failedRound, cycles, varied,
                    applied >>

\* x402 build: inference.chat raises; the catch breaks out of the round loop
ChatFailsX402 ==
    /\ pc = "chat"
    /\ build = "x402"
    /\ varied < MaxVaried
    /\ rounds \in EventRounds
    /\ varied' = varied + 1
    /\ failedRound' = rounds
    /\ OnChatFailure(World)
    /\ UNCHANGED << build, probe, fetched, recent, beatVars, driverVars,
                    roundEnv, turns, now, financial, tier, lowCompute,
                    messages, response, callIdx, toolResults, lastResult, lastInvoked,
                    persisted, cycles, applied >>

\* a statement of the store raises in runAgentLoop, after the snapshot has
\* arrived (getTurnCount, setAgentState) or after inference.chat has
\* returned (insertTurn): no try of runAgentLoop encloses these statements,
\* and the invocation ends with the failure.  It counts as an event.
StoreFails ==
    /\ pc \in {"fetch", "chat"}
    /\ varied < MaxVaried
    /\ varied' = varied + 1
    /\ pc' = "idle"
    /\ outcome' = "store"
    /\ UNCHANGED << build, probe, fetched, recent, beatVars, driverVars,
                    roundEnv, worldVars, now, rounds, financial, tier,
                    lowCompute, messages, response, callIdx, toolResults,
                    lastResult, lastInvoked, chats, persisted, failedRound,
                    cycles, applied >>

\* time passes.  The clock is coarse: it is seen to advance between
\* invocations and while the financial snapshot is being fetched.
Tick ==
    /\ pc \in {"idle", "fetch"}
    /\ now < MaxNow
    /\ now' = now + 1
    /\ UNCHANGED << build, probe, fetched, recent, beatVars, driverVars,
                    worldVars, loopVars, lastResult, lastInvoked, applied >>

\* the driver is not waiting
NoNap ==
    [sleepMs |-> 0, checkInterval |-> 0, slept |-> 0, due |-> 0,
     wakeRequest |-> NoRow]

\* let interval = null
NoInterval == [armed |-> FALSE, due |-> 0, timers |-> 0]

\* getRecentTurns not yet called
NoRead == [count |-> 0, rows |-> <<>>, taken |-> FALSE]

\* getTier not yet applied
NoProbe == [b1 |-> 0, b2 |-> 0, t1 |-> "none", t2 |-> "none"]

NoResult ==
    [name |-> "", arguments |-> NoArgs, result |-> "", durationMs |-> 0,
     error |-> Undefined]

Init ==
    /\ build \in Builds
    /\ kv = [k \in KVKeys |-> NoRow]
    /\ turns = <<>>
    /\ mods = <<>>
    /\ files = InitFiles
    /\ execLog = <<>>
    /\ kvLog = <<>>
    /\ now = 0
    /\ pc = "idle"
    /\ rounds = 0
    /\ financial = 0
    /\ tier = "none"
    /\ lowCompute = FALSE
    /\ messages = <<>>
    /\ response = NoResponse
    /\ callIdx = 0
    /\ toolResults = <<>>
    /\ roundEnv = <<>>
    /\ lastResult = NoResult
    /\ lastInvoked = FALSE
    /\ chats = 0
    /\ persisted = 0
    /\ outcome = "none"
    /\ failedRound = 0
    /\ cycles = 0
    /\ varied = 0
    /\ applied = 0
    /\ probe = NoProbe
    /\ fetched = NoFetches
    /\ recent = NoRead
    /\ interval = NoInterval
    /\ beats = <<>>
    /\ hbLog = <<>>
    /\ dpc = "none"
    /\ nap = NoNap

\* the menu of arguments a caller of executeTool may pass
ToolArgs ==
    {NoArgs, Dur(1), Dur(30)} \cup {Cmd(c) : c \in Commands} \cup {Path(p) : p \in Paths}

ToolNames == ConwayToolNames \cup LocalToolNames \cup {"bogus"}

ToolEnvs == {CalmEnv, RoughEnv, [CalmEnv EXCEPT !.exitCode = 1]}

\* a caller awaits executeTool(toolName, args, tools, context)
ApplyTool ==
    /\ pc = "apply"
    /\ applied < MaxApply
    /\ applied' = applied + 1
    /\ \E toolName \in ToolNames : \E args \in ToolArgs : \E env \in ToolEnvs :
         LET r == executeTool(build, toolName, args, World, now, env)
         IN  /\ SetWorld(r.w)
             /\ lastResult' = r.result
             /\ lastInvoked' = r.invoked
    /\ UNCHANGED << build, probe, fetched, recent, beatVars, driverVars,
                    turns, now, loopVars >>

\* executeTool on its own: a registry, a store and a clock reading
InitTool ==
    /\ build \in Builds
    /\ kv = [k \in KVKeys |-> NoRow]
    /\ turns = <<>>
    /\ mods = <<>>
    /\ files = InitFiles
    /\ execLog = <<>>
    /\ kvLog = <<>>
    /\ now \in 0..MaxNow
    /\ pc = "apply"
    /\ rounds = 0
    /\ financial = 0
    /\ tier = "none"
    /\ lowCompute = FALSE
    /\ messages = <<>>
    /\ response = NoResponse
    /\ callIdx = 0
    /\ toolResults = <<>>
    /\ roundEnv = <<>>
    /\ lastResult = NoResult
    /\ lastInvoked = FALSE
    /\ chats = 0
    /\ persisted = 0
    /\ outcome = "none"
    /\ failedRound = 0
    /\ cycles = 0
    /\ varied = 0
    /\ applied = 0
    /\ probe = NoProbe
    /\ fetched = NoFetches
    /\ recent = NoRead
    /\ interval = NoInterval
    /\ beats = <<>>
    /\ hbLog = <<>>
    /\ dpc = "none"
    /\ nap = NoNap

Next ==
    \/ StartCycle
    \/ SeedConversation
    \/ ResolveTier
    \/ ChatReturnsConway
    \/ ChatFailsConway
    \/ ToolReturns
    \/ ChatReturnsX402
    \/ ChatFailsX402
    \/ Tick

Spec == Init /\ [][Next]_vars

\* every awaited call returns: the snapshot, inference.chat, executeTool
Returns ==
    \/ SeedConversation
    \/ ResolveTier
    \/ ChatReturnsConway
    \/ ChatReturnsX402
    \/ ToolReturns

FairSpec == Init /\ [][Next]_vars /\ WF_vars(Returns)

NextTool == ApplyTool

ToolSpec == InitTool /\ [][NextTool]_vars

\* getTier alone: two balances are chosen, then the function is applied to both
InitTier ==
    /\ build \in Builds
    /\ kv = [k \in KVKeys |-> NoRow]
    /\ turns = <<>>
    /\ mods = <<>>
    /\ files = InitFiles
    /\ execLog = <<>>
    /\ now = 0
    /\ pc = "probe"
    /\ rounds = 0
    /\ financial = 0
    /\ tier = "none"
    /\ lowCompute = FALSE
    /\ messages = <<>>
    /\ response = NoResponse
    /\ callIdx = 0
    /\ toolResults = <<>>
    /\ roundEnv = <<>>
    /\ lastResult = NoResult
    /\ lastInvoked = FALSE
    /\ chats = 0
    /\ kvLog = <<>>
    /\ persisted = 0
    /\ outcome = "none"
    /\ failedRound = 0
    /\ cycles = 0
    /\ varied = 0
    /\ applied = 0
    /\ probe \in [b1 : TierBalances, b2 : TierBalances, t1 : {"none"}, t2 : {"none"}]
    /\ fetched = NoFetches
    /\ recent = NoRead
    /\ interval = NoInterval
    /\ beats = <<>>
    /\ hbLog = <<>>
    /\ dpc = "none"
    /\ nap = NoNap

ComputeTier ==
    /\ pc = "probe"
    /\ probe.t1 = "none"
    /\ probe' = [probe EXCEPT !.t1 = getTier(probe.b1), !.t2 = getTier(probe.b2)]
    /\ UNCHANGED << build, fetched, recent, beatVars, driverVars, worldVars, loopVars,
                    now, lastResult, lastInvoked, applied >>

NextTier == ComputeTier

TierSpec == InitTier /\ [][NextTier]_vars

-----------------------------------------------------------------------------
(* The turn table on its own: Turn Records are inserted, each with the     *)
(* clock reading its round took, and getRecentTurns is called.             *)

\* bound: Turn Records inserted per behaviour
MaxTurns == 3

\* the clock readings of the rounds, in milliseconds: two rounds may read
\* the same millisecond, and the clock may have been set back between two
\* rounds
Stamps == {1, 2}

\* what a round hands to insertTurn: no text and no Tool Call Result, or
\* text with the result of a call that returned, of a call that failed
RoundsKept ==
    { [thinking |-> "", results |-> <<>>],
      [thinking |-> "thinking",
       results |-> << executeTool("x402", "exec", Cmd(<<"ls">>), World, 0,
                                  CalmEnv).result >>],
      [thinking |-> "thinking",
       results |-> << executeTool("x402", "read_file", Path("src/index.ts"),
                                  World, 0, CalmEnv).result >>] }

\* db.insertTurn(turn), as a round calls it
TurnInserted ==
    /\ pc = "store"
    /\ Len(turns) < MaxTurns
    /\ \E t \in Stamps, r \in RoundsKept :
          turns' = insertTurn(turns, TurnRecord(t, r.thinking, r.results))
    /\ UNCHANGED << build, probe, fetched, recent, beatVars, driverVars, kv, mods, files,
                    execLog, kvLog, now, loopVars, lastResult, lastInvoked,
                    applied >>

\* db.getRecentTurns(count)
RecentTurnsRead ==
    /\ pc = "store"
    /\ \E count \in 0..(MaxTurns + 1) :
          recent' = [count |-> count, rows |-> getRecentTurns(turns, count),
                     taken |-> TRUE]
    /\ UNCHANGED << build, probe, fetched, beatVars, driverVars, worldVars, now,
                    loopVars, lastResult, lastInvoked, applied >>

\* a store that holds no Turn Record yet
InitTurn ==
    /\ build \in Builds
    /\ kv = [k \in KVKeys |-> NoRow]
    /\ turns = <<>>
    /\ mods = <<>>
    /\ files = InitFiles
    /\ execLog = <<>>
    /\ now = 0
    /\ pc = "store"
    /\ rounds = 0
    /\ financial = 0
    /\ tier = "none"
    /\ lowCompute = FALSE
    /\ messages = <<>>
    /\ response = NoResponse
    /\ callIdx = 0
    /\ toolResults = <<>>
    /\ roundEnv = <<>>
    /\ lastResult = NoResult
    /\ lastInvoked = FALSE
    /\ chats = 0
    /\ kvLog = <<>>
    /\ persisted = 0
    /\ outcome = "none"
    /\ failedRound = 0
    /\ cycles = 0
    /\ varied = 0
    /\ applied = 0
    /\ probe = NoProbe
    /\ fetched = NoFetches
    /\ recent = NoRead
    /\ interval = NoInterval
    /\ beats = <<>>
    /\ hbLog = <<>>
    /\ dpc = "none"
    /\ nap = NoNap

NextTurn ==
    \/ TurnInserted
    \/ RecentTurnsRead

TurnSpec == InitTurn /\ [][NextTurn]_vars

-----------------------------------------------------------------------------
(* Heartbeat Scheduler.  A tick runs without interruption from one await   *)
(* to the next: beats keeps, for every tick begun, the clock value it      *)
(* captured (now) and, while it awaits a task, the entry and the fire time *)
(* it computed for it (prev).                                              *)
(* A cron schedule is its period in seconds, or does not parse.            *)

Cron(period) == [parses |-> TRUE, period |-> period]
BadCron      == [parses |-> FALSE, period |-> 0]

\* the rows getHeartbeatEntries returns: the default entries, with one
\* whose schedule does not parse and one that is disabled
HeartbeatEntries(b) ==
    << [name |-> "health_check", schedule |-> Cron(300),
        task |-> "health_check", enabled |-> TRUE],
       [name |-> "broken", schedule |-> BadCron,
        task |-> "status_ping", enabled |-> TRUE],
       IF b = "conway"
       THEN [name |-> "credit_monitor", schedule |-> Cron(600),
             task |-> "credit_monitor", enabled |-> TRUE]
       ELSE [name |-> "balance_monitor", schedule |-> Cron(600),
             task |-> "balance_monitor", enabled |-> TRUE],
       [name |-> "paused", schedule |-> Cron(300),
        task |-> "status_ping", enabled |-> FALSE],
       [name |-> "status_ping", schedule |-> Cron(3600),
        task |-> "status_ping", enabled |-> TRUE] >>

\* cron.prev(): the most recent fire time before t
Prev(period, t) == ((t - 1) \div period) * period

\* new Date(0): earlier than every fire time
Epoch == -1

\* the tasks of runTask that wait for an outside call
Awaits(b, task) ==
    \/ b = "conway" /\ task \in {"health_check", "credit_monitor"}
    \/ b = "x402" /\ task = "balance_monitor"

\* db.setKV as the daemon calls it
hbSetKV(w, t, key, value) == [w EXCEPT !.kv = setKV(@, key, value)]

\* a callback that also marks the agent as running
onWakeRequestWaking(w, t, reason) ==
    hbSetKV(hbSetKV(w, t, "wake_request", Str(reason)), t, "agent_state",
            Str("running"))

\* a callback under which a second request withdraws the first
onWakeRequestToggle(w, t, reason) ==
    IF getKV(w.kv, "wake_request") = NoRow
    THEN hbSetKV(w, t, "wake_request", Str(reason))
    ELSE [w EXCEPT !.kv = deleteKV(@, "wake_request")]

\* the callback the driver hands to the daemon
onWakeRequest(w, t, reason) == hbSetKV(w, t, "wake_request", Str(reason))

\* runTask for a task that waits for nothing
runTaskNow(b, task, w, t) ==
    CASE task = "health_check" -> hbSetKV(w, t, "last_health_check", Time(t))
      [] task = "status_ping" -> hbSetKV(w, t, "last_heartbeat_ping", Time(t))
      [] OTHER -> w

\* what an awaited outside call can answer: the sandbox shell answers or
\* fails; a balance is read as enough, as exactly the threshold, as just
\* under it or as low, or the read fails
TaskAnswers(b, task) ==
    CASE task = "health_check" -> {"ok", "fails"}
      [] task = "credit_monitor" -> {"enough", "at", "under", "low", "fails"}
      [] task = "balance_monitor" -> {"enough", "at", "under", "low"}

\* credits, in cents, below which credit_monitor asks for a wake-up
CREDITS_LOW_CENTS == 100

CreditsRead(answer) ==
    CASE answer = "low" -> 50
      [] answer = "under" -> CREDITS_LOW_CENTS - 1
      [] answer = "at" -> CREDITS_LOW_CENTS
      [] OTHER -> 500

UsdcRead(answer) ==
    CASE answer = "low" -> 0
      [] answer = "under" -> TIER_LOW_COMPUTE - 1
      [] answer = "at" -> TIER_LOW_COMPUTE
      [] OTHER -> TIER_NORMAL

\* Number.toFixed(2) of a balance held in millionths
toFixed2(micro) ==
    LET cents == (micro + 5000) \div 10000
    IN  ToString(cents \div 100) \o "." \o ToString((cents % 100) \div 10)
            \o ToString(cents % 10)

CreditsReason(balance) ==
    "Credits critically low: " \o ToString(balance) \o " cents"

UsdcReason(balance) == "USDC balance low: $" \o toFixed2(balance)

\* a probe that also wakes the agent at the threshold itself
IsLowInclusive(balance, threshold) == balance <= threshold

\* balance < 100, fin.solanaUsdcBalance < TIER_THRESHOLDS.low_compute
IsLow(balance, threshold) == balance < threshold

\* runTask, a health_check that keeps a failure of the sandbox to itself
runTaskRestSilent(b, task, answer, w, t) ==
    CASE task = "health_check" -> w
      [] task = "credit_monitor" ->
            IF answer = "fails" THEN w
            ELSE LET w1 == hbSetKV(w, t, "last_credit_balance",
                                   Num(CreditsRead(answer)))
                 IN IF IsLow(CreditsRead(answer), CREDITS_LOW_CENTS)
                    THEN onWakeRequest(w1, t, CreditsReason(CreditsRead(answer)))
                    ELSE w1
      [] task = "balance_monitor" ->
            LET w1 == hbSetKV(w, t, "last_usdc_balance", Num(UsdcRead(answer)))
                w2 == hbSetKV(w1, t, "last_sol_balance", Num(0))
            IN IF IsLow(UsdcRead(answer), TIER_LOW_COMPUTE)
               THEN onWakeRequest(w2, t, UsdcReason(UsdcRead(answer)))
               ELSE w2

\* runTask from the return of its awaited call on
runTaskRest(b, task, answer, w, t) ==
    CASE task = "health_check" ->
            IF answer = "fails"
            THEN onWakeRequest(w, t, "Sandbox health check failed")
            ELSE w
      [] task = "credit_monitor" ->
            IF answer = "fails" THEN w
            ELSE LET w1 == hbSetKV(w, t, "last_credit_balance",
                                   Num(CreditsRead(answer)))
                 IN IF IsLow(CreditsRead(answer), CREDITS_LOW_CENTS)
                    THEN onWakeRequest(w1, t, CreditsReason(CreditsRead(answer)))
                    ELSE w1
      [] task = "balance_monitor" ->
            LET w1 == hbSetKV(w, t, "last_usdc_balance", Num(UsdcRead(answer)))
                w2 == hbSetKV(w1, t, "last_sol_balance", Num(0))
            IN IF IsLow(UsdcRead(answer), TIER_LOW_COMPUTE)
               THEN onWakeRequest(w2, t, UsdcReason(UsdcRead(answer)))
               ELSE w2

\* an entry of the history: what tick k did with the entry of that name,
\* and the fire time (cron.prev) it saw
HbEvent(k, name, what, fire) ==
    [beat |-> k, name |-> name, what |-> what, fire |-> fire]

\* the tick k has evaluated its last entry
HbDone(k) == HbEvent(k, "", "done", 0)

\* tick, a catch clause that gives up the remaining entries
RECURSIVE RunEntriesUntilFailure(_, _, _, _, _, _, _, _)
RunEntriesUntilFailure(b, k, start, i, w, log, raises, t) ==
    LET es    == HeartbeatEntries(b)
        entry == es[i]
        prev  == Prev(entry.schedule.period, t)
        lastRun     == getKV(w.kv, HeartbeatKey(entry.name))
        lastRunDate == IF lastRun = NoRow THEN Epoch ELSE lastRun.t
        started     == HbEvent(k, entry.name, "started", prev)
        done(l) == [w |-> w, idx |-> Len(es) + 1, phase |-> "done", fire |-> 0,
                    log |-> Append(l, HbDone(k))]
    IN  IF i > Len(es) THEN done(log)
        ELSE IF ~entry.enabled
        THEN RunEntriesUntilFailure(b, k, start, i + 1, w, log, raises, t)
        ELSE IF ~entry.schedule.parses
        THEN done(Append(log, HbEvent(k, entry.name, "unparsable", 0)))
        ELSE IF prev > lastRunDate
        THEN IF Awaits(b, entry.task)
             THEN [w |-> w, idx |-> i, phase |-> "await", fire |-> prev,
                   log |-> Append(log, started)]
             ELSE IF entry.name \in raises
             THEN done(log \o << started, HbEvent(k, entry.name, "raised", prev) >>)
             ELSE RunEntriesUntilFailure(b, k, start, i + 1,
                      hbSetKV(runTaskNow(b, entry.task, w, t), t,
                              HeartbeatKey(entry.name), Time(start)),
                      log \o << started, HbEvent(k, entry.name, "ran", prev) >>,
                      raises, t)
        ELSE RunEntriesUntilFailure(b, k, start, i + 1, w,
                 Append(log, HbEvent(k, entry.name, "notdue", prev)),
                 raises, t)

\* a catch clause that records the run all the same
EntryFailedAdvancing(w, t, name, start) ==
    hbSetKV(w, t, HeartbeatKey(name), Time(start))

\* catch {} of tick: the task of the entry has raised, and the store is
\* left as it is
EntryFailed(w, t, name, start) == w

\* tick from entry i on, for the tick k that captured the clock value start,
\* up to its next await or its end; raises names the entries whose task
\* fails on its store write
RECURSIVE RunEntries(_, _, _, _, _, _, _, _)
RunEntries(b, k, start, i, w, log, raises, t) ==
    LET es    == HeartbeatEntries(b)
        entry == es[i]
        prev  == Prev(entry.schedule.period, t)
        lastRun     == getKV(w.kv, HeartbeatKey(entry.name))
        lastRunDate == IF lastRun = NoRow THEN Epoch ELSE lastRun.t
        started     == HbEvent(k, entry.name, "started", prev)
    IN  IF i > Len(es)
        THEN [w |-> w, idx |-> i, phase |-> "done", fire |-> 0,
              log |-> Append(log, HbDone(k))]
        ELSE IF ~entry.enabled
        THEN RunEntries(b, k, start, i + 1, w, log, raises, t)
        ELSE IF ~entry.schedule.parses
        THEN RunEntries(b, k, start, i + 1, w,
                 Append(log, HbEvent(k, entry.name, "unparsable", 0)),
                 raises, t)
        ELSE IF prev > lastRunDate
        THEN IF Awaits(b, entry.task)
             THEN [w |-> w, idx |-> i, phase |-> "await", fire |-> prev,
                   log |-> Append(log, started)]
             ELSE IF entry.name \in raises
             THEN RunEntries(b, k, start, i + 1,
                      EntryFailed(w, t, entry.name, start),
                      log \o << started, HbEvent(k, entry.name, "raised", prev) >>,
                      raises, t)
             ELSE RunEntries(b, k, start, i + 1,
                      hbSetKV(runTaskNow(b, entry.task, w, t), t,
                              HeartbeatKey(entry.name), Time(start)),
                      log \o << started, HbEvent(k, entry.name, "ran", prev) >>,
                      raises, t)
        ELSE RunEntries(b, k, start, i + 1, w,
                 Append(log, HbEvent(k, entry.name, "notdue", prev)),
                 raises, t)

TICK_S == 30

\* bound: firings of the interval timer per behaviour
MaxTicks == 1

\* the clock values at which the daemon is started: a second before the
\* hour, when every schedule is about to fire, and a second after it
BeatStarts == {3599, 3601}

\* the clock values the model visits after a start at s: the moments the
\* timer is due at
Instants(s) == {s + TICK_S * k : k \in 0..(MaxTicks + 1)}

\* the entries whose task may fail on its store write in one tick
Raises == {{}, {"status_ping"}, {"health_check"}}

\* an answer or a failure that counts against the budget of events
Eventful(answer, raises) ==
    (IF answer \in {"ok", "enough"} THEN 0 ELSE 1) + (IF raises = {} THEN 0 ELSE 1)

\* tick() up to its first await: what it computes
FirstSegment(raises) ==
    RunEntries(build, Len(beats) + 1, now, 1, World, hbLog, raises, now)

\* tick() up to its first await: the frame it leaves behind; cost is what
\* the tick takes from the budget of events by beginning
TickBegun(raises, cost) ==
    LET r == FirstSegment(raises)
    IN  /\ beats' = Append(beats, [start |-> now, idx |-> r.idx,
                                    phase |-> r.phase, fire |-> r.fire])
        /\ hbLog' = r.log
        /\ varied + cost + Eventful("ok", raises) <= MaxVaried
        /\ varied' = varied + cost + Eventful("ok", raises)

\* tick() up to its first await
BeginTick(raises, cost) ==
    TickBegun(raises, cost) /\ SetWorld(FirstSegment(raises).w)

\* a start that does not look at interval first
startDaemonUnguarded(iv, t) ==
    [iv |-> [armed |-> TRUE, due |-> t + TICK_S, timers |-> iv.timers + 1],
     tick |-> TRUE]

\* start(): the closure variable interval it leaves, and whether it calls
\* tick; armed says that interval holds a timer, timers counts the timers
\* that setInterval has made and clearInterval has not cleared
startDaemon(iv, t) ==
    IF iv.armed
    THEN [iv |-> iv, tick |-> FALSE]
    ELSE [iv |-> [armed |-> TRUE, due |-> t + TICK_S, timers |-> iv.timers + 1],
          tick |-> TRUE]

\* a stop that forgets the timer without clearing it
stopDaemonForgetting(iv) == [iv EXCEPT !.armed = FALSE]

\* stop(): the closure variable interval it leaves
stopDaemon(iv) ==
    IF iv.armed
    THEN [armed |-> FALSE, due |-> 0, timers |-> iv.timers - 1]
    ELSE iv

\* start(), called once by the driver
HeartbeatStart ==
    /\ ~interval.armed
    /\ beats = <<>>
    /\ interval' = startDaemon(interval, now).iv
    /\ \E raises \in Raises : BeginTick(raises, 0)
    /\ UNCHANGED << build, probe, fetched, recent, driverVars, now, turns, pc, rounds, financial,
                    tier, lowCompute, messages, response, callIdx, toolResults,
                    roundEnv, chats, persisted, outcome, failedRound, cycles,
                    lastResult, lastInvoked, applied >>

\* the interval timer calls tick; beside a running driver a firing counts
\* as an event
TimerFires ==
    /\ interval.timers > 0
    /\ now >= interval.due
    /\ Len(beats) <= MaxTicks
    /\ interval' = [interval EXCEPT !.due = now + TICK_S]
    /\ \E raises \in Raises : BeginTick(raises, IF dpc = "none" THEN 0 ELSE 1)
    /\ UNCHANGED << build, probe, fetched, recent, driverVars, now, turns, pc, rounds, financial,
                    tier, lowCompute, messages, response, callIdx, toolResults,
                    roundEnv, chats, persisted, outcome, failedRound, cycles,
                    lastResult, lastInvoked, applied >>

\* the call a tick awaits returns: runTask ends, lastRun is written, and the
\* tick goes on with the entries that follow; the history keeps an answer
\* that is not the usual one
BeatTaskReturns ==
    \E k \in 1..Len(beats) :
        /\ beats[k].phase = "await"
        /\ LET entry == HeartbeatEntries(build)[beats[k].idx]
           IN \E answer \in TaskAnswers(build, entry.task), raises \in Raises :
                LET w1 == runTaskRest(build, entry.task, answer, World, now)
                    w2 == hbSetKV(w1, now, HeartbeatKey(entry.name),
                                  Time(beats[k].start))
                    l1 == IF answer \in {"ok", "enough"} THEN hbLog
                          ELSE Append(hbLog, HbEvent(k, entry.name, answer,
                                                     beats[k].fire))
                    l2 == Append(l1, HbEvent(k, entry.name, "ran", beats[k].fire))
                    r  == RunEntries(build, k, beats[k].start, beats[k].idx + 1,
                                     w2, l2, raises, now)
                IN  /\ beats' = [beats EXCEPT ![k].idx = r.idx, ![k].phase = r.phase,
                                                 ![k].fire = r.fire]
                    /\ hbLog' = r.log
                    /\ SetWorld(r.w)
                    /\ varied + Eventful(answer, raises) <= MaxVaried
                    /\ varied' = varied + Eventful(answer, raises)
        /\ UNCHANGED << build, probe, fetched, recent, interval, driverVars, now, turns, pc, rounds,
                        financial, tier, lowCompute, messages, response, callIdx,
                        toolResults, roundEnv, chats, persisted, outcome,
                        failedRound, cycles, lastResult, lastInvoked, applied >>

\* time passes
Elapse ==
    /\ beats # <<>>
    /\ dpc # "exited"
    /\ \E t \in Instants(beats[1].start) : t > now /\ now' = t
    /\ UNCHANGED << build, probe, fetched, recent, beatVars, driverVars, worldVars, loopVars,
                    lastResult, lastInvoked, applied >>

\* the daemon alone, started at some moment
InitBeat ==
    /\ build \in Builds
    /\ kv = [k \in KVKeys |-> NoRow]
    /\ turns = <<>>
    /\ mods = <<>>
    /\ files = InitFiles
    /\ execLog = <<>>
    /\ now \in BeatStarts
    /\ pc = "idle"
    /\ rounds = 0
    /\ financial = 0
    /\ tier = "none"
    /\ lowCompute = FALSE
    /\ messages = <<>>
    /\ response = NoResponse
    /\ callIdx = 0
    /\ toolResults = <<>>
    /\ roundEnv = <<>>
    /\ lastResult = NoResult
    /\ lastInvoked = FALSE
    /\ chats = 0
    /\ kvLog = <<>>
    /\ persisted = 0
    /\ outcome = "none"
    /\ failedRound = 0
    /\ cycles = 0
    /\ varied = 0
    /\ applied = 0
    /\ probe = NoProbe
    /\ fetched = NoFetches
    /\ recent = NoRead
    /\ interval = NoInterval
    /\ beats = <<>>
    /\ hbLog = <<>>
    /\ dpc = "none"
    /\ nap = NoNap

NextBeat ==
    \/ HeartbeatStart
    \/ TimerFires
    \/ BeatTaskReturns
    \/ Elapse

BeatSpec == InitBeat /\ [][NextBeat]_vars

-----------------------------------------------------------------------------
(* Driver: run(), which starts the daemon and calls runAgentLoop for ever. *)
(* Times are in seconds.                                                   *)

\* bound: invocations of runAgentLoop per behaviour of SystemSpec
MaxRuns == 2

DEAD_WAIT_S   == 300
BACKOFF_S     == 30
POLL_S        == 30
MIN_SLEEP_S   == 10
WAKE_AFTER_S  == 60

Max(a, b) == IF a >= b THEN a ELSE b
Min(a, b) == IF a <= b THEN a ELSE b

\* if (value): a row that exists and does not hold the empty string
Truthy(value) == value # NoRow /\ value # Str("")

\* a driver that leaves the keys in the store
drvKeepKV(w, key) == w

\* db.deleteKV as the driver calls it
drvDeleteKV(w, key) == [w EXCEPT !.kv = deleteKV(@, key)]

\* while (true) goes round: runAgentLoop is called again, on the store w,
\* the locals of the wait being left as n; at the bound of the model the
\* driver is left where it is
ReinvokeFrom(w, n) ==
    IF cycles < MaxRuns
    THEN /\ Invoke(w)
         /\ dpc' = "inloop"
         /\ nap' = n
    ELSE /\ SetWorld(w)
         /\ dpc' = "halted"
         /\ nap' = n
         /\ UNCHANGED << turns, pc, rounds, financial, tier, lowCompute, messages,
                         response, callIdx, toolResults, roundEnv, chats,
                         persisted, outcome, failedRound, cycles, lastResult,
                         lastInvoked >>

Reinvoke(w) == ReinvokeFrom(w, NoNap)

\* db.deleteKV("sleep_until"); continue; on the store w: were the delete
\* to raise, the catch clause of run would wait and go round
ClearSleepUntil(w, n) ==
    IF deleteKVRaises(w.kv, "sleep_until")
    THEN /\ SetWorld(w)
         /\ dpc' = "backoff"
         /\ nap' = [NoNap EXCEPT !.due = now + BACKOFF_S]
         /\ UNCHANGED << turns, pc, rounds, financial, tier, lowCompute, messages,
                         response, callIdx, toolResults, roundEnv, chats,
                         persisted, outcome, failedRound, cycles, lastResult,
                         lastInvoked >>
    ELSE ReinvokeFrom(drvDeleteKV(w, "sleep_until"), n)

\* a run() without its try: what runAgentLoop raises ends the process
runUncaught(t) == [to |-> "crashed", due |-> 0]

\* catch (err) of run(): the message is printed and sleep(30_000) awaited,
\* after which while (true) goes round
runCatch(t) == [to |-> "backoff", due |-> t + BACKOFF_S]

\* a run() that treats dead as the end: the driver returns
onDeadReturn(t) == [to |-> "halted", due |-> 0]

\* if (state === "dead") of run(): sleep(300_000) is awaited, after which
\* while (true) goes round
onDead(t) == [to |-> "deadwait", due |-> t + DEAD_WAIT_S]

\* run() from heartbeat.start() to the first await of runAgentLoop
DriverBoot ==
    /\ dpc = "none"
    /\ interval' = startDaemon(interval, now).iv
    /\ \E raises \in Raises :
          /\ TickBegun(raises, 0)
          /\ Invoke(FirstSegment(raises).w)
    /\ dpc' = "inloop"
    /\ UNCHANGED << build, probe, fetched, recent, nap, now, applied >>

\* await runAgentLoop(...) is over: the catch clause, or the branch on the
\* Agent State
DriverResumes ==
    /\ dpc = "inloop"
    /\ pc = "idle"
    /\ outcome \in {"returned", "threw", "store"}
    /\ LET state      == getAgentState(kv)
           sleepUntil == IF getKV(kv, "sleep_until") = NoRow
                         THEN now + WAKE_AFTER_S
                         ELSE getKV(kv, "sleep_until").t
           sleepMs    == Max(sleepUntil - now, MIN_SLEEP_S)
           checkInterval == Min(sleepMs, POLL_S)
           wait(to, n) ==
               /\ dpc' = to
               /\ nap' = n
               /\ UNCHANGED << worldVars, loopVars, turns, lastResult, lastInvoked >>
       IN  IF outcome \in {"threw", "store"}
           THEN wait(runCatch(now).to, [NoNap EXCEPT !.due = runCatch(now).due])
           ELSE IF state = "dead"
           THEN wait(onDead(now).to, [NoNap EXCEPT !.due = onDead(now).due])
           ELSE IF state = "sleeping"
           THEN wait("poll", [sleepMs |-> sleepMs, checkInterval |-> checkInterval,
                              slept |-> 0, due |-> now + checkInterval,
                              wakeRequest |-> NoRow])
           ELSE /\ Reinvoke(World)
                /\ UNCHANGED varied
    /\ UNCHANGED << build, probe, fetched, recent, beatVars, now, applied >>

\* await sleep(checkInterval) is over: the wake request is looked for; a
\* request found is deleted together with sleep_until, and sleep_until is
\* deleted once more on the way out of the wait
DriverPoll ==
    /\ dpc = "poll"
    /\ now >= nap.due
    /\ LET slept == nap.slept + nap.checkInterval
           wakeRequest == getKV(kv, "wake_request")
       IN  IF Truthy(wakeRequest)
           THEN ClearSleepUntil(drvDeleteKV(drvDeleteKV(World, "wake_request"),
                                            "sleep_until"),
                                [nap EXCEPT !.slept = slept,
                                            !.wakeRequest = wakeRequest])
           ELSE IF slept < nap.sleepMs
           THEN /\ dpc' = "poll"
                /\ nap' = [nap EXCEPT !.slept = slept,
                                      !.due = now + nap.checkInterval]
                /\ UNCHANGED << worldVars, pc, rounds, financial, tier, lowCompute,
                                messages, response, callIdx, toolResults, roundEnv,
                                chats, persisted, outcome, failedRound, cycles,
                                lastResult, lastInvoked >>
           ELSE ClearSleepUntil(World, NoNap)
    /\ UNCHANGED << build, probe, fetched, recent, beatVars, now, varied, applied >>

\* await sleep(300_000) after dead, or sleep(30_000) after an error, is over
DriverRetries ==
    /\ dpc \in {"deadwait", "backoff"}
    /\ now >= nap.due
    /\ Reinvoke(World)
    /\ UNCHANGED << build, probe, fetched, recent, beatVars, now, varied, applied >>

\* stop()
HeartbeatStop == interval' = stopDaemon(interval)

\* SIGTERM or SIGINT: shutdown, which ends with process.exit(0); with the
\* process go the pending calls of the loop and of the ticks.  A signal
\* counts as an event.
Shutdown ==
    /\ dpc \notin {"none", "exited"}
    /\ varied < MaxVaried
    /\ varied' = varied + 1
    /\ HeartbeatStop
    /\ kv' = setAgentState(kv, "sleeping")
    /\ dpc' = "exited"
    /\ nap' = NoNap
    /\ pc' = "exited"
    /\ beats' = [k \in 1..Len(beats) |-> [beats[k] EXCEPT !.phase = "exited"]]
    /\ messages' = <<>>
    /\ response' = NoResponse
    /\ callIdx' = 0
    /\ toolResults' = <<>>
    /\ roundEnv' = <<>>
    /\ lowCompute' = FALSE
    /\ UNCHANGED << build, probe, fetched, recent, hbLog, turns, mods, files, execLog, kvLog, now,
                    rounds, financial, tier, chats, persisted, outcome,
                    failedRound, cycles, lastResult, lastInvoked, applied >>

NextSystem ==
    \/ DriverBoot
    \/ DriverResumes
    \/ DriverPoll
    \/ DriverRetries
    \/ Shutdown
    \/ SeedConversation
    \/ ResolveTier
    \/ ChatReturnsConway
    \/ ChatFailsConway
    \/ ToolReturns
    \/ ChatReturnsX402
    \/ ChatFailsX402
    \/ TimerFires
    \/ BeatTaskReturns
    \/ Elapse

SystemSpec == InitBeat /\ [][NextSystem]_vars

\* time passes, and a timer of the driver that is due calls back
FairSystemSpec == SystemSpec /\ WF_vars(Elapse) /\ WF_vars(DriverPoll)

-----------------------------------------------------------------------------
(* The wake request between the callback of the daemon and the polls of    *)
(* the driver: runAgentLoop has returned with the Agent State sleeping,    *)
(* and tasks of the daemon call onWakeRequest at any moment.               *)

\* bound: calls of onWakeRequest per behaviour
MaxPosts == 3

\* the reasons the tasks give
WakeReasons ==
    {"Sandbox health check failed", CreditsReason(50), UsdcReason(0)}

\* the delays, in seconds, the loop has left in sleep_until
SleepDelays == {5, 90}

\* onWakeRequest?.(reason), as a task of the daemon calls it
PostWake(w, t, reason) == onWakeRequest(w, t, reason)

\* the reasons posted, oldest first, each with the time of its post
Posted == SelectSeq(hbLog, LAMBDA e : e.what = "posted")

\* a task of the daemon, which the driver has started, asks for a wake-up
WakePosted ==
    /\ dpc # "none"
    /\ Len(Posted) < MaxPosts
    /\ \E reason \in WakeReasons :
          /\ SetWorld(PostWake(World, now, reason))
          /\ hbLog' = Append(hbLog, HbEvent(0, reason, "posted", now))
    /\ UNCHANGED << build, probe, fetched, recent, interval, beats, driverVars, now, turns, pc,
                    rounds, financial, tier, lowCompute, messages, response,
                    callIdx, toolResults, roundEnv, chats, persisted, outcome,
                    failedRound, cycles, varied, lastResult, lastInvoked,
                    applied >>

\* await sleep(checkInterval): time passes until the timer of the driver
\* is due
SleepElapses ==
    /\ dpc = "poll"
    /\ now < nap.due
    /\ now' = nap.due
    /\ UNCHANGED << build, probe, fetched, recent, beatVars, driverVars, worldVars, loopVars,
                    lastResult, lastInvoked, applied >>

\* runAgentLoop has returned for the first time, the Agent State being
\* sleeping, with or without sleep_until
InitWake ==
    /\ build \in Builds
    /\ now \in BeatStarts
    /\ \E until \in {NoRow} \cup {Time(now + d) : d \in SleepDelays} :
          kv = [k \in KVKeys |->
                   CASE k = "agent_state" -> Str("sleeping")
                     [] k = "sleep_until" -> until
                     [] OTHER -> NoRow]
    /\ turns = <<>>
    /\ mods = <<>>
    /\ files = InitFiles
    /\ execLog = <<>>
    /\ pc = "idle"
    /\ rounds = 0
    /\ financial = 0
    /\ tier = "none"
    /\ lowCompute = FALSE
    /\ messages = <<>>
    /\ response = NoResponse
    /\ callIdx = 0
    /\ toolResults = <<>>
    /\ roundEnv = <<>>
    /\ lastResult = NoResult
    /\ lastInvoked = FALSE
    /\ chats = 0
    /\ kvLog = <<>>
    /\ persisted = 0
    /\ outcome = "returned"
    /\ failedRound = 0
    /\ cycles = 1
    /\ varied = 0
    /\ applied = 0
    /\ probe = NoProbe
    /\ fetched = NoFetches
    /\ recent = NoRead
    /\ interval = NoInterval
    /\ beats = <<>>
    /\ hbLog = <<>>
    /\ dpc = "inloop"
    /\ nap = NoNap

NextWake ==
    \/ WakePosted
    \/ DriverResumes
    \/ SleepElapses
    \/ DriverPoll

WakeSpec == InitWake /\ [][NextWake]_vars

-----------------------------------------------------------------------------
(* The daemon under a caller that calls start() and stop() at any moment,  *)
(* in any order; the awaited calls of its tasks give their usual answers.  *)

\* bound: calls of start() and stop() per behaviour
MaxCalls == 3

\* an entry of the history: a call of start() or stop()
HbCall(name) == HbEvent(0, name, "called", 0)

Calls == SelectSeq(hbLog, LAMBDA e : e.what = "called")

\* start(), whenever it is called
StartCalled ==
    /\ Len(Calls) < MaxCalls
    /\ LET r == startDaemon(interval, now)
           seg == RunEntries(build, Len(beats) + 1, now, 1, World,
                             Append(hbLog, HbCall("start")), {}, now)
       IN  /\ interval' = r.iv
           /\ IF r.tick
              THEN /\ beats' = Append(beats, [start |-> now, idx |-> seg.idx,
                                              phase |-> seg.phase,
                                              fire |-> seg.fire])
                   /\ hbLog' = seg.log
                   /\ SetWorld(seg.w)
              ELSE /\ hbLog' = Append(hbLog, HbCall("start"))
                   /\ UNCHANGED << beats, worldVars >>
    /\ UNCHANGED << build, probe, fetched, recent, driverVars, now, turns, pc, rounds, financial,
                    tier, lowCompute, messages, response, callIdx, toolResults,
                    roundEnv, chats, persisted, outcome, failedRound, cycles,
                    varied, lastResult, lastInvoked, applied >>

\* stop(), whenever it is called
StopCalled ==
    /\ Len(Calls) < MaxCalls
    /\ interval' = stopDaemon(interval)
    /\ hbLog' = Append(hbLog, HbCall("stop"))
    /\ UNCHANGED << build, probe, fetched, recent, beats, driverVars, worldVars, loopVars,
                    now, lastResult, lastInvoked, applied >>

\* the daemon has been made and not yet started
InitSwitch ==
    /\ build \in Builds
    /\ kv = [k \in KVKeys |-> NoRow]
    /\ turns = <<>>
    /\ mods = <<>>
    /\ files = InitFiles
    /\ execLog = <<>>
    /\ now \in BeatStarts
    /\ pc = "idle"
    /\ rounds = 0
    /\ financial = 0
    /\ tier = "none"
    /\ lowCompute = FALSE
    /\ messages = <<>>
    /\ response = NoResponse
    /\ callIdx = 0
    /\ toolResults = <<>>
    /\ roundEnv = <<>>
    /\ lastResult = NoResult
    /\ lastInvoked = FALSE
    /\ chats = 0
    /\ kvLog = <<>>
    /\ persisted = 0
    /\ outcome = "none"
    /\ failedRound = 0
    /\ cycles = 0
    /\ varied = MaxVaried
    /\ applied = 0
    /\ probe = NoProbe
    /\ fetched = NoFetches
    /\ recent = NoRead
    /\ interval = NoInterval
    /\ beats = <<>>
    /\ hbLog = <<>>
    /\ dpc = "none"
    /\ nap = NoNap

NextSwitch ==
    \/ StartCalled
    \/ StopCalled
    \/ TimerFires
    \/ BeatTaskReturns
    \/ Elapse

SwitchSpec == InitSwitch /\ [][NextSwitch]_vars

-----------------------------------------------------------------------------
(* The driver and the loop it calls, with every wait of the driver run to  *)
(* its end: the sleeping wait, the wait after dead and the wait after a    *)
(* failure.  Of the daemon there is its first tick and, in DriverSpec, the *)
(* wake requests its tasks post, at any moment.                            *)

\* await sleep(300_000), await sleep(30_000): time passes until the timer
\* of the driver is due
WaitElapses ==
    /\ dpc \in {"deadwait", "backoff"}
    /\ now < nap.due
    /\ now' = nap.due
    /\ UNCHANGED << build, probe, fetched, recent, beatVars, driverVars, worldVars, loopVars,
                    lastResult, lastInvoked, applied >>

NextRetry ==
    \/ DriverBoot
    \/ DriverResumes
    \/ DriverPoll
    \/ DriverRetries
    \/ SeedConversation
    \/ ResolveTier
    \/ ChatReturnsConway
    \/ ChatFailsConway
    \/ ToolReturns
    \/ ChatReturnsX402
    \/ ChatFailsX402
    \/ StoreFails
    \/ SleepElapses
    \/ WaitElapses

RetrySpec == InitBeat /\ [][NextRetry]_vars

NextDriver ==
    \/ NextRetry
    \/ WakePosted

DriverSpec == InitBeat /\ [][NextDriver]_vars

\* every awaited call returns and every timer that is due calls back
FairRetrySpec ==
    /\ RetrySpec
    /\ WF_vars(Returns)
    /\ WF_vars(DriverResumes)
    /\ WF_vars(DriverPoll)
    /\ WF_vars(DriverRetries)
    /\ WF_vars(SleepElapses)
    /\ WF_vars(WaitElapses)

-----------------------------------------------------------------------------
(* Properties *)

\* the Agent State writes of the current invocation, in order
AgentStateWrites == SelectSeq(kvLog, LAMBDA e : e.key = "agent_state")

\* an invocation of runAgentLoop has ended, by returning or by raising
Ended == pc = "idle" /\ outcome \in {"returned", "threw"}

\* a tool call of the current invocation wrote the Agent State
ToolMovedState ==
    \E i \in 1..Len(kvLog) : kvLog[i].by = "tool" /\ kvLog[i].key = "agent_state"

LastTurn == turns[Len(turns)]

\* the Turn Records the current invocation persisted
OwnTurns == SubSeq(turns, Len(turns) - persisted + 1, Len(turns))

\* C1, as stated: an invocation whose financial snapshot resolves to the dead
\* tier makes no reasoning call and writes the Agent State exactly once, to
\* dead.
C1_DeadTierCycle ==
    (Ended /\ getTier(financial) = "dead")
        => /\ chats = 0
           /\ Len(AgentStateWrites) = 1
           /\ AgentStateWrites[1].value = Str("dead")

\* C2, as stated: however an invocation ends, the Agent State it leaves is
\* sleeping or dead, and that is the last Agent State write it made.
C2_TerminalState ==
    Ended
        => /\ getAgentState(kv) \in {"sleeping", "dead"}
           /\ Len(AgentStateWrites) > 0
           /\ AgentStateWrites[Len(AgentStateWrites)].value
                  = Str(getAgentState(kv))

\* C3: an invocation that returns after MAX_TOOL_ROUNDS rounds in which no
\* tool call wrote the Agent State ends sleeping, and its last store write
\* sets sleep_until to the write's own clock reading plus 60 s, which is
\* strictly later than that reading.
C3_DefaultSleep ==
    (pc = "idle" /\ outcome = "returned" /\ rounds = MAX_TOOL_ROUNDS
                 /\ ~ToolMovedState)
        => /\ getAgentState(kv) = "sleeping"
           /\ Len(kvLog) >= 2
           /\ LET stateWrite == kvLog[Len(kvLog) - 1]
                  wakeWrite  == kvLog[Len(kvLog)]
              IN  /\ stateWrite.key = "agent_state"
                  /\ stateWrite.value = Str("sleeping")
                  /\ wakeWrite.key = "sleep_until"
                  /\ wakeWrite.value = Time(wakeWrite.at + 60)
                  /\ wakeWrite.value.t > wakeWrite.at
                  /\ getKV(kv, "sleep_until") = wakeWrite.value

C3_Witness ==
    /\ pc = "idle"
    /\ outcome = "returned"
    /\ rounds = MAX_TOOL_ROUNDS
    /\ persisted = MAX_TOOL_ROUNDS
    /\ ~ToolMovedState
    /\ Len(LastTurn.toolCalls) > 0
    /\ getAgentState(kv) = "sleeping"
    /\ getKV(kv, "sleep_until").t >= 60

\* C4: the step in which inference.chat returns a response without tool
\* calls persists exactly one Turn Record, whose tool-call list is empty,
\* and ends the invocation: no round and no reasoning call follows it.
C4_EmptyResponseEndsLoop ==
    [][ (pc = "chat" /\ failedRound' = failedRound
                     /\ Len(response'.toolCalls) = 0)
            => /\ Len(turns') = Len(turns) + 1
               /\ turns'[Len(turns')].toolCalls = <<>>
               /\ SubSeq(turns', 1, Len(turns)) = turns
               /\ persisted' = persisted + 1
               /\ chats' = chats
               /\ rounds' = rounds
               /\ pc' = "idle"
               /\ outcome' = "returned" ]_vars

C4_Witness ==
    /\ build = "conway"
    /\ pc = "idle"
    /\ outcome = "returned"
    /\ failedRound = 0
    /\ rounds = 5
    /\ chats = 5
    /\ persisted = 5
    /\ Len(response.toolCalls) = 0
    /\ LastTurn.toolCalls = <<>>

\* C5: a reasoning call is outstanding only while the Agent State is running,
\* and once a round in which the sleep tool ran has its Turn Record
\* persisted, the invocation has returned.
C5_NoRoundAfterSleep ==
    /\ pc = "chat" => getAgentState(kv) = "running"
    /\ (\E i \in 1..Len(OwnTurns) : \E j \in 1..Len(OwnTurns[i].toolCalls) :
            OwnTurns[i].toolCalls[j].name = "sleep")
           => pc = "idle" /\ outcome = "returned"

C5_Witness ==
    /\ pc = "idle"
    /\ outcome = "returned"
    /\ rounds = 5
    /\ chats = 5
    /\ \E j \in 1..Len(LastTurn.toolCalls) : LastTurn.toolCalls[j].name = "sleep"
    /\ getAgentState(kv) = "sleeping"
    /\ kvLog[Len(kvLog)].by = "tool"

\* C6: an invocation makes at most MAX_TOOL_ROUNDS reasoning calls and
\* persists at most MAX_TOOL_ROUNDS Turn Records, and, every awaited call
\* returning, an invocation that has started ends.
C6_BoundedAndTerminates ==
    /\ [](/\ chats <= MAX_TOOL_ROUNDS
          /\ persisted <= MAX_TOOL_ROUNDS
          /\ rounds <= MAX_TOOL_ROUNDS)
    /\ (pc # "idle") ~> (pc = "idle")

C6_Witness ==
    /\ pc = "idle"
    /\ outcome = "returned"
    /\ chats = MAX_TOOL_ROUNDS
    /\ persisted = MAX_TOOL_ROUNDS

\* C7: once inference.chat has failed in a round, the invocation is over:
\* the failed call was its last reasoning call, and the Turn Records it
\* persisted are those of the rounds before the failed one.
C7_NoRetry ==
    failedRound > 0
        => /\ pc = "idle"
           /\ outcome \in {"returned", "threw"}
           /\ rounds = failedRound
           /\ chats = failedRound
           /\ persisted = failedRound - 1

C7_Witness ==
    /\ failedRound = MAX_TOOL_ROUNDS
    /\ pc = "idle"
    /\ chats = MAX_TOOL_ROUNDS
    /\ persisted = MAX_TOOL_ROUNDS - 1

\* C8: a failing tool call does not end the invocation: only a failed
\* reasoning call makes runAgentLoop raise; every result of the round is in
\* the conversation as the observation of its call, the error string when
\* the call failed; and when the round's dispatch is over, every call of the
\* response has a result and the round's Turn Record holds them all.
C8_ToolFailureContained ==
    /\ outcome = "threw" => failedRound > 0
    /\ pc = "tool" => Len(toolResults) = callIdx - 1
    /\ Len(response.toolCalls) > 0
           => \A i \in 1..Len(toolResults) :
                 \E k \in 1..Len(messages) :
                     /\ messages[k].role = "tool"
                     /\ messages[k].tool_call_id = response.toolCalls[i].id
                     /\ messages[k].content =
                            IF toolResults[i].error # Undefined
                            THEN toolResults[i].error
                            ELSE toolResults[i].result
    /\ (pc # "tool" /\ Len(response.toolCalls) > 0)
           => /\ Len(toolResults) = Len(response.toolCalls)
              /\ Len(turns) > 0
              /\ LastTurn.toolCalls = toolResults

C8_Witness ==
    /\ pc \in {"chat", "idle"}
    /\ Len(response.toolCalls) = 2
    /\ Len(toolResults) = 2
    /\ toolResults[1].name = "read_file"
    /\ toolResults[1].error = "Conway API error"
    /\ toolResults[2].error = Undefined
    /\ toolResults[2].result = "File written"
    /\ files["notes.txt"] = "written"
    /\ LastTurn.toolCalls = toolResults

\* C9: executeTool called with a name the registry does not hold returns a
\* result whose error is set and whose durationMs is 0, runs no tool's
\* execute function and leaves the store and the file system as they were.
C9_UnknownTool ==
    [][ (applied' = applied + 1
             /\ lastResult'.name \notin createBuiltinTools(build))
            => /\ lastResult'.error # Undefined
               /\ lastResult'.error # ""
               /\ lastResult'.result = ""
               /\ lastResult'.durationMs = 0
               /\ ~lastInvoked'
               /\ UNCHANGED << kv, turns, mods, files, execLog >> ]_vars

C9_Witness ==
    /\ pc = "apply"
    /\ applied > 0
    /\ lastResult.name \notin createBuiltinTools(build)
    /\ lastResult.error = "Unknown tool"
    /\ lastResult.durationMs = 0
    /\ ~lastInvoked

\* the arguments of a call to a tool of the registry match its deny-list
Denied(b, name, args) ==
    /\ name \in createBuiltinTools(b)
    /\ \/ name = "exec" /\ MatchesForbiddenPattern(args.command)
       \/ /\ name \in {"write_file", "delete_file"}
          /\ \E f \in {"wallet.json", "state.db"} : f \in Needles(args.path)

Refusals ==
    { BlockedPattern,
      BlockedCommandPattern,
      "Blocked: Cannot overwrite critical identity/state files directly",
      "Blocked: Cannot delete critical files" }

\* C10, as stated: a call whose arguments match the deny-list returns a
\* result whose error is set, and neither hands a command to the shell nor
\* changes a file.
C10_DenyListIsError ==
    [][ (applied' = applied + 1
             /\ Denied(build, lastResult'.name, lastResult'.arguments))
            => /\ lastResult'.error # Undefined
               /\ UNCHANGED << files, execLog >> ]_vars

\* C10, amended: a call whose arguments match the deny-list returns
\* normally: the error of its result is unset and the result text is the
\* "Blocked: ..." refusal; it neither hands a command to the shell nor
\* changes a file or the store.
C10_DenyListRefuses ==
    [][ (applied' = applied + 1
             /\ Denied(build, lastResult'.name, lastResult'.arguments))
            => /\ lastResult'.error = Undefined
               /\ lastResult'.result \in Refusals
               /\ lastInvoked'
               /\ UNCHANGED << kv, turns, mods, files, execLog >> ]_vars

C10_Witness ==
    /\ pc = "apply"
    /\ applied > 0
    /\ build = "x402"
    /\ lastResult.name = "exec"
    /\ lastResult.arguments.command = <<"rm", "-rf", "~/.sol-automaton/state.db">>
    /\ lastResult.result = BlockedPattern
    /\ lastResult.error = Undefined
    /\ execLog = <<>>
    /\ files = InitFiles

\* C11, as stated: whatever tool and arguments are requested, no command
\* matching a deny-list pattern is ever handed to the shell, the commands of
\* the package-install tools included.
C11_NoForbiddenCommandRuns ==
    \A i \in 1..Len(execLog) : ~MatchesForbiddenPattern(execLog[i])

\* C12: the tool calls of a round are dispatched one at a time in the order
\* of the response: while call callIdx is awaited, exactly the calls before
\* it have completed; the i-th result is the result of the i-th requested
\* call, and the round's observations are the last entries of the
\* conversation, in that order, each carrying the id of its call.
C12_SequentialDispatch ==
    /\ pc = "tool" => /\ callIdx \in 1..Len(response.toolCalls)
                      /\ Len(toolResults) = callIdx - 1
    /\ Len(response.toolCalls) > 0
           => /\ Len(toolResults) <= Len(response.toolCalls)
              /\ Len(messages) >= Len(toolResults)
              /\ \A i \in 1..Len(toolResults) :
                    LET m == messages[Len(messages) - Len(toolResults) + i]
                    IN  /\ toolResults[i].name = response.toolCalls[i].name
                        /\ toolResults[i].arguments = response.toolCalls[i].arguments
                        /\ m.role = "tool"
                        /\ m.tool_call_id = response.toolCalls[i].id

C12_Witness ==
    /\ pc = "idle"
    /\ outcome = "returned"
    /\ Len(response.toolCalls) = 2
    /\ Len(toolResults) = 2
    /\ toolResults[1].name = "sleep"
    /\ toolResults[2].name = "exec"
    /\ execLog = << <<"ls">> >>
    /\ messages[Len(messages) - 1].tool_call_id = response.toolCalls[1].id
    /\ messages[Len(messages)].tool_call_id = response.toolCalls[2].id

\* C13: executeTool of sleep with a duration d returns normally and leaves
\* agent_state = sleeping and sleep_until = the clock reading plus d, both
\* written by the tool; executeTool of any other name leaves agent_state and
\* sleep_until as they were.
C13_SleepIsTheOnlyScheduler ==
    [][ applied' = applied + 1
            => /\ (lastResult'.name = "sleep" /\ lastResult'.arguments.hasDuration)
                      => /\ lastResult'.error = Undefined
                         /\ getKV(kv', "agent_state") = Str("sleeping")
                         /\ getKV(kv', "sleep_until")
                                = Time(now + lastResult'.arguments.duration)
                         /\ Len(kvLog') = Len(kvLog) + 2
                         /\ kvLog'[Len(kvLog') - 1].key = "agent_state"
                         /\ kvLog'[Len(kvLog')].key = "sleep_until"
               /\ lastResult'.name # "sleep"
                      => /\ getKV(kv', "agent_state") = getKV(kv, "agent_state")
                         /\ getKV(kv', "sleep_until") = getKV(kv, "sleep_until")
                         /\ kvLog' = kvLog ]_vars

C13_Witness ==
    /\ pc = "apply"
    /\ applied > 0
    /\ now = 1
    /\ lastResult.name = "sleep"
    /\ lastResult.arguments.duration = 30
    /\ lastInvoked
    /\ getKV(kv, "agent_state") = Str("sleeping")
    /\ getKV(kv, "sleep_until") = Time(31)


\* the order of the survival tiers, lowest first
TierRank(t) ==
    CASE t = "dead" -> 0
      [] t = "critical" -> 1
      [] t = "low_compute" -> 2
      [] t = "normal" -> 3

\* C15: getTier answers one of the four tiers for every balance and every
\* tier for some balance, answers dead for every balance below 0.01 USDC,
\* and never answers a lower tier for a larger balance.
C15_TierTotalAndMonotone ==
    probe.t1 # "none" =>
        /\ probe.t1 \in {"dead", "critical", "low_compute", "normal"}
        /\ \A t \in {"dead", "critical", "low_compute", "normal"} :
              \E b \in TierBalances : getTier(b) = t
        /\ probe.b1 < 10000 => probe.t1 = "dead"
        /\ probe.b1 < probe.b2 => TierRank(probe.t1) <= TierRank(probe.t2)
        /\ probe.b1 = probe.b2 => probe.t1 = probe.t2

\* a smaller balance on a lower tier than a larger one, below the cent a dead
C15_Witness ==
    /\ probe.b1 = 9999 /\ probe.t1 = "dead"
    /\ probe.b2 = 1000000 /\ probe.t2 = "low_compute"

EventsOf(k) == {i \in 1..Len(hbLog) : hbLog[i].beat = k}

\* tick j began only after tick k had evaluated its last entry
Follows(j, k) ==
    \E d \in EventsOf(k) :
        hbLog[d].what = "done" /\ \A i \in EventsOf(j) : d < i

\* C18: once a tick has executed the task of an entry for a fire time and
\* written lastRun, a tick that follows it executes the task again only
\* for a later fire time.
C18_OncePerFireTime ==
    \A i, j \in 1..Len(hbLog) :
        ( /\ hbLog[i].what = "ran"
          /\ hbLog[j].what = "started"
          /\ hbLog[j].name = hbLog[i].name
          /\ Follows(hbLog[j].beat, hbLog[i].beat) )
        => hbLog[j].fire > hbLog[i].fire

\* the values written to heartbeat_last_<name>, oldest first: every "ran"
\* of the history is one write of the clock value its tick captured
LastRunWrites(name) ==
    LET ran == SelectSeq(hbLog, LAMBDA e : e.what = "ran" /\ e.name = name)
    IN  [i \in 1..Len(ran) |-> beats[ran[i].beat].start]

\* C19: heartbeat_last_<name> never decreases, whatever the interleaving
\* of the ticks.
C19_LastRunMonotone ==
    \A name \in HeartbeatNames :
        \A i, j \in 1..Len(LastRunWrites(name)) :
            i < j => LastRunWrites(name)[i] <= LastRunWrites(name)[j]

\* C20: a tick that ends has evaluated every enabled entry, whether or not
\* the evaluation of an earlier entry failed, and the timer stays armed.
C20_FailureIsPerEntry ==
    /\ beats # <<>> => interval.armed
    /\ \A d \in 1..Len(hbLog) :
          hbLog[d].what = "done" =>
            \A e \in 1..Len(HeartbeatEntries(build)) :
               HeartbeatEntries(build)[e].enabled =>
                 \E i \in EventsOf(hbLog[d].beat) :
                    i < d /\ hbLog[i].name = HeartbeatEntries(build)[e].name

\* a tick met an unparsable schedule and a failing task and still ran a
\* later entry before it ended, and the timer has fired again since
C20_Witness ==
    /\ Len(beats) = 2
    /\ \E i, j, l, d \in EventsOf(1) :
          /\ i < j /\ j < l /\ l < d
          /\ hbLog[i].what = "raised"
          /\ hbLog[j].what = "unparsable"
          /\ hbLog[l].what = "ran"
          /\ hbLog[d].what = "done"

\* the keys a tick of the daemon may write
HeartbeatWritable ==
    ProbeKeys \cup {"wake_request"} \cup {HeartbeatKey(n) : n \in HeartbeatNames}

\* C14: whatever the interleaving of loop, driver and ticks, the Agent State
\* becomes running only in the step in which runAgentLoop is called, and a
\* step of a tick changes no key other than heartbeat_last_<name>, the keys
\* of the probes and wake_request.
C14_WritersOfAgentState ==
    [][ /\ (kv'["agent_state"] = Str("running") /\ kv["agent_state"] # Str("running"))
            => cycles' = cycles + 1
        /\ (hbLog' # hbLog /\ cycles' = cycles)
            => \A key \in KVKeys \ HeartbeatWritable : kv'[key] = kv[key] ]_vars

\* the loop has returned and the driver waits; meanwhile a tick has asked
\* for a wake-up, and the Agent State is still sleeping
C14_Witness ==
    /\ dpc = "poll"
    /\ cycles = 1
    /\ getKV(kv, "wake_request") # NoRow
    /\ getAgentState(kv) = "sleeping"

\* C17: a cycle whose tier is normal issues its reasoning call with the
\* primary model, whatever the tiers of the cycles before it.
C17_NormalTierUsesPrimary ==
    (build = "x402" /\ pc = "chat" /\ tier = "normal")
        => ModelInUse = "inferenceModel"

\* the positions of the history at which tick k wrote lastRun for name
RanBy(k, name) ==
    {i \in EventsOf(k) : hbLog[i].what = "ran" /\ hbLog[i].name = name}

LastInstant == beats[1].start + TICK_S * (MaxTicks + 1)

\* the driver, in its sleeping wait, polls in this step
Polls == dpc = "poll" /\ dpc' # "exited" /\ << dpc', nap' >> # << dpc, nap >>

C23_WakeIsNotLost ==
    /\ []( (dpc = "poll" /\ Posted # <<>>) =>
              getKV(kv, "wake_request") = Str(Posted[Len(Posted)].name) )
    /\ [][ (Polls /\ Posted # <<>>) =>
             /\ dpc' \in {"inloop", "halted"}
             /\ nap'.wakeRequest = Str(Posted[Len(Posted)].name)
             /\ getKV(kv', "wake_request") = NoRow ]_vars

\* two different reasons were posted between two polls, and the poll that
\* followed ended the wait on the later one
C23_Witness ==
    /\ Len(Posted) = 2
    /\ Posted[1].name # Posted[2].name
    /\ dpc = "inloop"
    /\ cycles = 2
    /\ nap.slept > nap.checkInterval
    /\ nap.wakeRequest = Str(Posted[2].name)
    /\ getKV(kv, "wake_request") = NoRow

\* the entry that follows health_check among the enabled ones
AfterHealthCheck == "broken"

\* C24: when the probe of the sandbox fails, the task posts the wake
\* request, ends without raising, so that lastRun is written, and the tick
\* goes on with the entry that follows.
C24_HealthProbeWakes ==
    /\ [][ \A i \in (1..Len(hbLog')) \ (1..Len(hbLog)) :
             (hbLog'[i].name = "health_check" /\ hbLog'[i].what = "fails") =>
                /\ getKV(kv', "wake_request") = Str("Sandbox health check failed")
                /\ getKV(kv', HeartbeatKey("health_check"))
                      = Time(beats[hbLog'[i].beat].start) ]_vars
    /\ [](\A i \in 1..Len(hbLog) :
             (hbLog[i].name = "health_check" /\ hbLog[i].what = "fails") =>
                /\ Len(hbLog) >= i + 2
                /\ hbLog[i + 1].beat = hbLog[i].beat
                /\ hbLog[i + 1].name = "health_check"
                /\ hbLog[i + 1].what = "ran"
                /\ hbLog[i + 2].beat = hbLog[i].beat
                /\ hbLog[i + 2].name = AfterHealthCheck)

\* the probe of the sandbox failed in a tick that has since evaluated its
\* last entry, and the wake request is posted
C24_Witness ==
    /\ build = "conway"
    /\ getKV(kv, "wake_request") = Str("Sandbox health check failed")
    /\ \E i, d \in EventsOf(1) :
          /\ i < d
          /\ hbLog[i].name = "health_check" /\ hbLog[i].what = "fails"
          /\ hbLog[d].what = "done"

\* the task of the funding probe, the key it keeps the balance under, its
\* threshold and its reason, by build
FundingProbe ==
    IF build = "conway"
    THEN [name |-> "credit_monitor", key |-> "last_credit_balance",
          threshold |-> CREDITS_LOW_CENTS]
    ELSE [name |-> "balance_monitor", key |-> "last_usdc_balance",
          threshold |-> TIER_LOW_COMPUTE]

FundingReason(balance) ==
    IF build = "conway" THEN CreditsReason(balance) ELSE UsdcReason(balance)

\* C25: the step in which the funding probe has read a balance leaves
\* wake_request holding the reason that names that balance when the
\* balance is below the threshold, and leaves wake_request as it was when
\* the balance is at the threshold or above it.
C25_FundingProbeWakesBelowThreshold ==
    [][ \A i \in (1..Len(hbLog')) \ (1..Len(hbLog)) :
          ( /\ hbLog'[i].name = FundingProbe.name
            /\ hbLog'[i].what = "ran"
            /\ ~(i > 1 /\ hbLog'[i - 1].what = "fails") ) =>
             LET balance == getKV(kv', FundingProbe.key).t
             IN  /\ getKV(kv', FundingProbe.key) = Num(balance)
                 /\ IF balance < FundingProbe.threshold
                    THEN getKV(kv', "wake_request") = Str(FundingReason(balance))
                    ELSE getKV(kv', "wake_request") = getKV(kv, "wake_request")
      ]_vars

\* the probe has read a balance just under the threshold and has posted
\* the wake request that names it
C25_Witness ==
    /\ \E i \in 1..Len(hbLog) :
          hbLog[i].name = FundingProbe.name /\ hbLog[i].what = "ran"
    /\ getKV(kv, FundingProbe.key) = Num(FundingProbe.threshold - 1)
    /\ getKV(kv, "wake_request") = Str(FundingReason(FundingProbe.threshold - 1))
    /\ build = "x402" => getKV(kv, "wake_request") = Str("USDC balance low: $1.00")

\* inference.chat or a tool call of a round is awaited
RoundInFlight == pc \in {"chat", "tool"}

\* C26: the process exits only when no round is in flight, so that the Turn
\* Record of a round begun is persisted before the exit; and once it has
\* exited the Agent State is sleeping.
C26_RoundFinishesBeforeExit ==
    /\ [][ (dpc # "exited" /\ dpc' = "exited") => ~RoundInFlight ]_vars
    /\ [](dpc = "exited" => getAgentState(kv) = "sleeping")

\* this step is a call of start(), of stop()
CallOf(name) ==
    /\ Len(Calls') = Len(Calls) + 1
    /\ Calls'[Len(Calls')].name = name

\* C27: a start() of a stopped scheduler begins exactly one tick and arms
\* one timer, due one interval later; a start() of a started scheduler
\* begins no tick and leaves the timer as it is; at no time is there more
\* than one timer.
C27_StartOnce ==
    /\ [](interval.timers = IF interval.armed THEN 1 ELSE 0)
    /\ [][ /\ (CallOf("start") /\ ~interval.armed) =>
                /\ Len(beats') = Len(beats) + 1
                /\ beats'[Len(beats')].start = now
                /\ interval' = [armed |-> TRUE, due |-> now + TICK_S,
                                 timers |-> 1]
           /\ (CallOf("start") /\ interval.armed) =>
                /\ beats' = beats
                /\ interval' = interval
                /\ kv' = kv ]_vars

\* start() was called twice in a row: one tick, one timer
C27_Witness ==
    /\ Len(Calls) = 2
    /\ Calls[1].name = "start"
    /\ Calls[2].name = "start"
    /\ Len(beats) = 1
    /\ interval.armed
    /\ interval.timers = 1

\* C28: stop() leaves no timer and begins no tick, a stop() of a stopped
\* scheduler changes nothing, and a tick begins only in a start() or at
\* the firing of the timer of a started scheduler: none begins between a
\* stop() and the next start().
C28_StopIsIdempotent ==
    [][ /\ CallOf("stop") =>
            /\ interval' = NoInterval
            /\ beats' = beats
            /\ kv' = kv
            /\ ~interval.armed => interval' = interval
        /\ Len(beats') > Len(beats) =>
            /\ interval'.armed
            /\ CallOf("start") \/ interval.armed ]_vars

\* the scheduler was started and then stopped twice; the time at which
\* its timer was due has passed and no second tick has begun
C28_Witness ==
    /\ Len(Calls) = 3
    /\ Calls[1].name = "start"
    /\ Calls[2].name = "stop"
    /\ Calls[3].name = "stop"
    /\ interval = NoInterval
    /\ Len(beats) = 1
    /\ now >= beats[1].start + TICK_S

C30_SnapshotNeverThrows ==
    (build = "x402" /\ fetched.taken /\ pc # "fetch") =>
        LET fin == getFinancialState(fetched.sol, fetched.usdc)
        IN  /\ ~fin.threw
            /\ fin.solanaUsdcBalance
                  = IF fetched.usdc.ok THEN fetched.usdc.amount ELSE 0
            /\ fin.solanaSolBalance
                  = IF fetched.sol.ok THEN 1 ELSE 0
            /\ financial = fin.solanaUsdcBalance
            /\ (~fetched.usdc.ok /\ ~fetched.sol.ok) =>
                  /\ getTier(financial) = "dead"
                  /\ tier = "dead"
                  /\ Ended
                  /\ outcome = "returned"
                  /\ chats = 0
                  /\ getAgentState(kv) = "dead"

\* both fetches of the snapshot failed, and the invocation has returned
\* with the Agent State dead
C30_Witness ==
    /\ build = "x402"
    /\ fetched.taken
    /\ ~fetched.usdc.ok
    /\ ~fetched.sol.ok
    /\ Ended
    /\ outcome = "returned"
    /\ getAgentState(kv) = "dead"

\* C31, as stated: once a statement of the store has raised in a cycle, the
\* driver starts no cycle again.
C31_StoreFailureIsFatal ==
    [][ outcome = "store" => cycles' = cycles ]_vars


\* the Turn Records a and b read the same, property by property
SameTurn(a, b) ==
    /\ a.timestamp = b.timestamp
    /\ a.thinking = b.thinking
    /\ a.inputSource = b.inputSource
    /\ Len(a.toolCalls) = Len(b.toolCalls)
    /\ \A j \in 1..Len(a.toolCalls) :
          \A f \in {"name", "arguments", "result", "durationMs", "error"} :
             Field(a.toolCalls[j], f) = Field(b.toolCalls[j], f)

\* rows is what a call with count must return on the table: as many rows
\* as the table has, up to count; timestamps never decreasing; every row a
\* record that was inserted, no record twice, records of one timestamp in
\* the order of their insertion; and no record left out that is more
\* recent than one returned
RecentOf(table, count, rows) ==
    /\ Len(rows) = IF count < Len(table) THEN count ELSE Len(table)
    /\ \A i, j \in 1..Len(rows) :
          i < j => rows[i].timestamp <= rows[j].timestamp
    /\ \E pos \in [1..Len(rows) -> 1..Len(table)] :
          /\ \A m \in 1..Len(rows) : SameTurn(rows[m], table[pos[m]])
          /\ \A i, j \in 1..Len(rows) :
                /\ i # j => pos[i] # pos[j]
                /\ (i < j /\ rows[i].timestamp = rows[j].timestamp)
                      => pos[i] < pos[j]
          /\ \A q \in 1..Len(table) :
                (\A m \in 1..Len(rows) : pos[m] # q) =>
                   \A m \in 1..Len(rows) :
                      \/ table[q].timestamp < rows[m].timestamp
                      \/ table[q].timestamp = rows[m].timestamp /\ q < pos[m]

C33_OneTurnPerRound ==
    /\ [](/\ pc \in {"chat", "tool"} => persisted = rounds - 1
          /\ Ended => persisted = IF failedRound > 0 THEN rounds - 1 ELSE rounds)
    /\ [][ (turns' # turns \/ persisted' > persisted) =>
             /\ pc \in {"chat", "tool"}
             /\ Len(turns') = Len(turns) + 1
             /\ SubSeq(turns', 1, Len(turns)) = turns
             /\ persisted' = persisted + 1
             /\ pc = "chat" => Len(response'.toolCalls) = 0
             /\ pc = "tool" => callIdx = Len(response.toolCalls)
             /\ LET turn == turns'[Len(turns')]
                IN  /\ Len(turn.toolCalls) = Len(response'.toolCalls)
                    /\ \A i \in 1..Len(turn.toolCalls) :
                          /\ turn.toolCalls[i].name = response'.toolCalls[i].name
                          /\ turn.toolCalls[i].arguments
                                = response'.toolCalls[i].arguments ]_vars

\* the fifth round asked for a tool the registry does not hold and for a
\* sleep without a duration; its one Turn Record holds both results, in
\* that order, and is the fifth of the invocation
C33_Witness ==
    /\ build = "conway"
    /\ Ended
    /\ rounds = 5
    /\ persisted = 5
    /\ Len(turns) = 5
    /\ Len(LastTurn.toolCalls) = 2
    /\ LastTurn.toolCalls[1].name = "bogus"
    /\ LastTurn.toolCalls[1].error = "Unknown tool"
    /\ LastTurn.toolCalls[2].name = "sleep"
    /\ LastTurn.toolCalls[2].error = "Invalid time value"


\* runAgentLoop has ended by raising
Escaped == pc = "idle" /\ outcome \in {"threw", "store"}

\* C34: when runAgentLoop has raised, the driver goes into a wait of 30 s
\* and nowhere else; it leaves that wait only when the 30 s have passed, and
\* only to call runAgentLoop again; and a cycle that has failed is followed
\* by another cycle.
C34_FailedCycleIsRetried ==
    /\ [][ /\ (Escaped /\ dpc = "inloop" /\ dpc' # dpc) =>
                /\ dpc' = "backoff"
                /\ nap'.due = now + BACKOFF_S
                /\ cycles' = cycles
           /\ (dpc = "backoff" /\ dpc' # dpc) =>
                /\ now >= nap.due
                /\ dpc' \in {"inloop", "halted"}
                /\ dpc' = "inloop" => cycles' = cycles + 1 /\ pc' = "fetch" ]_vars
    /\ \A n \in 1..(MaxRuns - 1) :
          (Escaped /\ cycles = n) ~> (cycles = n + 1)

\* the first cycle raised before it had persisted a Turn Record; 30 s
\* later the second cycle is in its first round
C34_Witness ==
    /\ build = "conway"
    /\ dpc = "inloop"
    /\ cycles = 2
    /\ turns = <<>>
    /\ pc = "chat"
    /\ rounds = 1
    /\ now = beats[1].start + BACKOFF_S


\* C35: in the result of every call of executeTool, an error that is set
\* comes with the empty result text, and a result text that is not empty
\* comes with no error; when the tool's execute function ran, the result
\* holds the text it returned and no error, or the message it raised and
\* no text.
C35_ResultOrError ==
    [][ applied' = applied + 1 =>
          /\ lastResult'.error # Undefined => lastResult'.result = ""
          /\ lastResult'.result # "" => lastResult'.error = Undefined
          /\ lastInvoked' =>
                \E env \in ToolEnvs :
                   LET r == ToolExecute(build, lastResult'.name,
                                        lastResult'.arguments, World, now, env)
                   IN  IF r.out = "return"
                       THEN /\ lastResult'.result = r.text
                            /\ lastResult'.error = Undefined
                       ELSE /\ lastResult'.result = ""
                            /\ lastResult'.error = r.text ]_vars

\* write_file was refused by the file system: the result holds the
\* message as its error and no text, and the file is as it was
C35_Witness ==
    /\ pc = "apply"
    /\ applied > 0
    /\ build = "x402"
    /\ lastInvoked
    /\ lastResult.name = "write_file"
    /\ lastResult.arguments = Path("notes.txt")
    /\ lastResult.error = "EACCES: permission denied"
    /\ lastResult.result = ""
    /\ files = InitFiles


\* at position i of the history the tick of hbLog[i] is still suspended in
\* the task it started at position s
Suspended(s, i) ==
    /\ hbLog[s].what = "started"
    /\ s < i
    /\ \A e \in EventsOf(hbLog[s].beat) : ~(s < e /\ e < i)

\* C36, as stated: no tick starts the task of an entry for a fire time
\* while an earlier tick is suspended in that task for the same fire time.
C36_TicksDoNotOverlap ==
    \A s, i \in 1..Len(hbLog) :
        ( /\ Suspended(s, i)
          /\ hbLog[i].what = "started"
          /\ hbLog[i].name = hbLog[s].name
          /\ hbLog[i].beat # hbLog[s].beat )
        => hbLog[i].fire # hbLog[s].fire


\* a wake request is pending
Pending == getKV(kv, "wake_request") # NoRow

\* C37: wake_request changes only when a task posts a request and when a
\* poll of the sleeping wait finds one, so that neither runAgentLoop nor
\* the wait after dead nor the wait after a failure clears it; and a poll
\* that finds a request ends the wait.  A request pending when a sleeping
\* wait begins is therefore found by the first poll of that wait, which
\* it ends.
C37_WakeStaysPending ==
    [][ /\ getKV(kv', "wake_request") # getKV(kv, "wake_request") =>
              \/ /\ Len(Posted') = Len(Posted) + 1
                 /\ getKV(kv', "wake_request") = Str(Posted'[Len(Posted')].name)
              \/ /\ Polls
                 /\ Pending
                 /\ getKV(kv', "wake_request") = NoRow
        /\ (Polls /\ Pending) =>
              /\ dpc' \in {"inloop", "halted"}
              /\ nap'.wakeRequest = getKV(kv, "wake_request")
              /\ getKV(kv', "wake_request") = NoRow
        /\ (dpc = "inloop" /\ dpc' = "poll" /\ Pending) =>
              /\ nap'.slept = 0
              /\ getKV(kv', "wake_request") = getKV(kv, "wake_request") ]_vars

\* a request was posted before the wait after dead had run out; the cycle
\* that followed left it alone, and the first poll of the sleeping wait
\* after that cycle found it and ended the wait
C37_Witness ==
    /\ build = "x402"
    /\ cycles = 2
    /\ Len(Posted) = 1
    /\ Posted[1].fire = beats[1].start
    /\ now = beats[1].start + DEAD_WAIT_S + POLL_S
    /\ dpc = "halted"
    /\ nap.wakeRequest = Str(Posted[1].name)
    /\ nap.slept = nap.checkInterval
    /\ nap.slept < nap.sleepMs
    /\ ~Pending


\* the driver's await of runAgentLoop is over and the Agent State is dead
EndedDead ==
    /\ dpc = "inloop"
    /\ pc = "idle"
    /\ outcome = "returned"
    /\ getAgentState(kv) = "dead"

\* the x402 loop leaves its snapshot: the tier is resolved
TierResolved ==
    /\ build = "x402"
    /\ pc = "fetch"
    /\ pc' # "fetch"
    /\ outcome' # "store"

\* C38: when a cycle has ended in dead, the driver goes into a wait of
\* 300 s and nowhere else; it leaves that wait only when the 300 s have
\* passed, and only to call runAgentLoop again, which writes running; a
\* cycle whose snapshot shows a balance at or above the critical threshold
\* issues its first reasoning call and leaves the Agent State running, and
\* one whose snapshot shows less writes dead and issues none; and a cycle
\* that ended in dead is followed by another cycle.
C38_DeadIsNotAbsorbing ==
    /\ [][ /\ (EndedDead /\ dpc' # dpc) =>
                /\ dpc' = "deadwait"
                /\ nap'.due = now + DEAD_WAIT_S
                /\ cycles' = cycles
           /\ (dpc = "deadwait" /\ dpc' # dpc) =>
                /\ now >= nap.due
                /\ dpc' \in {"inloop", "halted"}
                /\ dpc' = "inloop" =>
                      /\ cycles' = cycles + 1
                      /\ pc' = "fetch"
                      /\ getAgentState(kv') = "running"
           /\ (TierResolved /\ financial' >= TIER_CRITICAL) =>
                /\ pc' = "chat"
                /\ chats' = 1
                /\ tier' # "dead"
                /\ getAgentState(kv') = "running"
           /\ (TierResolved /\ financial' < TIER_CRITICAL) =>
                /\ pc' = "idle"
                /\ chats' = 0
                /\ getAgentState(kv') = "dead" ]_vars
    /\ \A n \in 1..(MaxRuns - 1) :
          (dpc = "deadwait" /\ cycles = n) ~> (cycles = n + 1)

\* the first cycle ended in dead without a Turn Record; 300 s later the
\* second cycle has found a balance above the floor and its first
\* reasoning call is under way
C38_Witness ==
    /\ build = "x402"
    /\ dpc = "inloop"
    /\ cycles = 2
    /\ now = beats[1].start + DEAD_WAIT_S
    /\ turns = <<>>
    /\ financial >= TIER_CRITICAL
    /\ tier # "dead"
    /\ pc = "chat"
    /\ chats = 1
    /\ getAgentState(kv) = "running"


\* the entries a step adds to the conversation
Gained == SubSeq(messages', Len(messages) + 1, Len(messages'))

\* C39: a response with tool calls adds one entry to the conversation, the
\* assistant entry that carries the calls; each tool call that completes
\* adds one entry, the observation of that call; and a round is over when
\* every requested call has added its own.
C39_OneAssistantEntryPerRound ==
    [][ /\ (pc = "chat" /\ pc' = "tool") =>
              /\ Len(Gained) = 1
              /\ Gained[1].role = "assistant"
              /\ Len(Gained[1].tool_calls) = Len(response'.toolCalls)
        /\ (pc = "tool" /\ outcome' # "threw") =>
              /\ Len(Gained) = 1
              /\ Gained[1].role = "tool"
              /\ Gained[1].tool_call_id = NextToolCall.id
        /\ (pc = "tool" /\ pc' # "tool" /\ outcome' # "threw") =>
              callIdx = Len(response.toolCalls) ]_vars


\* the tools of category self_mod
SelfModTools == {"edit_own_file", "install_package", "install_npm_package"}

\* the result of a self-modifying tool that did what it was asked: the
\* file was written, or the install command ended with exit code 0
TookEffect(r) ==
    /\ r.name \in SelfModTools
    /\ r.error = Undefined
    /\ r.result \in {"File edited (audited)", "Success", "Installed"}

\* C40: a call of executeTool appends one Modification Record when a
\* self-modifying tool took effect, and leaves the modifications as they
\* were in every other case: another tool, a refused path, a write that
\* raised, an install command that failed.
C40_RecordIffModified ==
    [][ applied' = applied + 1 =>
          IF TookEffect(lastResult')
          THEN /\ Len(mods') = Len(mods) + 1
               /\ SubSeq(mods', 1, Len(mods)) = mods
               /\ mods'[Len(mods')].timestamp = now
          ELSE mods' = mods ]_vars

=============================================================================
